---- MODULE Spec2Model ----
(***************************************************************************)
(* A model of the rush shell: the lexer (rush-lexer), the Pratt parser     *)
(* (rush-parser), and the execution engine with its job table              *)
(* (rush-runner) as driven by the read-execute loop (src/rush.rs).         *)
(*                                                                         *)
(* Source text is a sequence of one-character strings; byte positions are  *)
(* 0-based as in the code, so the character at byte position p is          *)
(* source[p + 1].  All modelled characters are ASCII (len_utf8 = 1).       *)
(***************************************************************************)
EXTENDS Integers, Sequences, FiniteSets, TLC

\* ------------------------------------------------------------------ bounds
\* longest token stream (without the end-of-input token) given to the parser
MaxToks == 6
\* longest source text given to the lexer
MaxSrc == 4
\* processes that can exist in one run, the shell included
MaxProcs == 5
\* complete lines the shell reads in one run
MaxLines == 2
\* forks the OS refuses in one run
MaxForkFail == 1
\* signals sent to the shell's processes from outside in one run
MaxSignals == 2
\* complete lines read in a run that is disturbed by signals
MaxJobLines == 3
\* longest text given to determine_command_completeness
MaxText == 4
\* lines Rush::run reads in one run of its input loop
MaxReads == 3

VARIABLES
    source,     \* the text handed to Lexer::new
    tokens,     \* the TokenStream's token vector
    result,     \* what Parser::parse returned, with the stream's cursor
    stage,      \* "src" -> "lexed" -> "parsed"
    round,      \* 1: the original text; 2: the re-lexed rendering of its tree
    first,      \* round 2 only: the tree the first round parsed
    procs,      \* the OS processes: the shell (pid 1) and everything forked
    JOBS_UPDATED,   \* the shell's static AtomicBool
    sigchld,    \* a SIGCHLD is pending for the shell
    output,     \* the lines printed to the terminal, in order
    assigned,   \* history: the job ids handed out, in launch order
    nlines,     \* complete lines Rush::run has read
    nfail,      \* forks the OS has refused
    interactive,    \* init_shell found standard input to be a terminal
    upd,        \* history: what the latest update_job_statuses call started from,
                \* and whether a SIGCHLD has been delivered since it began
    nsig,       \* signals sent from outside
    npipes,     \* pipes the OS has made
    input_buffer,   \* Rush::run's input_buffer
    completeness,   \* Rush::run's completeness
    since       \* history: the lines read since the last complete command

frontVars == <<source, tokens, result, stage, round, first, input_buffer, completeness,
               since>>
runVars == <<procs, JOBS_UPDATED, sigchld, output, assigned, nlines, nfail,
             interactive, upd, nsig, npipes>>
vars == <<source, tokens, result, stage, round, first, input_buffer, completeness,
          since, procs, JOBS_UPDATED, sigchld, output, assigned, nlines, nfail,
          interactive, upd, nsig, npipes>>

\* ------------------------------------------------------------ rush-lexer
Span(start, end) == [start |-> start, end |-> end]

into_token(kind, span) == [kind |-> kind, span |-> span]

is_space(ch) == ch \in {" ", "\t", "\n", "\r"}

is_delimiter(ch) == is_space(ch) \/ ch \in {"|", ";"}

\* Span::slice: &source[start..end]
slice(span, src) == SubSeq(src, span.start + 1, span.end)

\* The scan of take_while(|c| !is_delimiter(c)) from peek position pos: the
\* position of the first character that is not taken.
RECURSIVE take_while_stop(_, _)
take_while_stop(src, pos) ==
    IF pos < Len(src) /\ ~is_delimiter(src[pos + 1])
    THEN take_while_stop(src, pos + 1)
    ELSE pos

\* take_while's value: one past the last character taken, and the length of
\* the source when no character was taken (`last` is None).
take_while(src, pos) ==
    LET stop == take_while_stop(src, pos)
    IN  IF stop > pos THEN stop ELSE Len(src)

\* take_atom(start), called when the character at `start` has been consumed.
take_atom(src, start) == into_token("Atom", Span(start, take_while(src, start + 1)))

\* The while-let loop of Lexer::lex from byte position pos.
RECURSIVE lex_loop(_, _)
lex_loop(src, pos) ==
    IF pos >= Len(src)
    THEN <<into_token("Eof", Span(Len(src), Len(src)))>>
    ELSE LET curr == src[pos + 1]
         IN  CASE curr = "|" -> <<into_token("Pipe", Span(pos, pos))>> \o lex_loop(src, pos + 1)
               [] curr = ";" -> <<into_token("Semi", Span(pos, pos))>> \o lex_loop(src, pos + 1)
               [] OTHER      -> <<take_atom(src, pos)>>
                                    \o lex_loop(src, take_while_stop(src, pos + 1))

\* Lexer::lex: the empty source gives a stream with no token at all.
lex(src) == IF Len(src) = 0 THEN <<>> ELSE lex_loop(src, 0)

\* TokenStream::peek / TokenStream::next at cursor cur (0-based).
peek(toks, cur) == IF cur < Len(toks) THEN toks[cur + 1].kind ELSE "Eof"

next_cursor(toks, cur) == IF cur < Len(toks) THEN cur + 1 ELSE cur

\* ----------------------------------------------------------- rush-parser
MIN == 0
SEQUENCE == 10
BACKGROUND == 20
PIPELINE == 30
\* operator_binding_power's None
NoPower == -1

\* Mutant: the powers of `&` and `|` exchanged.
operator_binding_power_swapped(kind) ==
    CASE kind = "Semi"      -> SEQUENCE
      [] kind = "Ampersand" -> PIPELINE
      [] kind = "Pipe"      -> BACKGROUND
      [] OTHER              -> NoPower

operator_binding_power(kind) ==
    CASE kind = "Semi"      -> SEQUENCE
      [] kind = "Ampersand" -> BACKGROUND
      [] kind = "Pipe"      -> PIPELINE
      [] OTHER              -> NoPower

SimpleCommand(program, args) == [program |-> program, args |-> args]
Command(cmd) == [type |-> "Command", cmd |-> cmd]
Pipeline(cmds) == [type |-> "Pipeline", cmds |-> cmds]
BackgroundJob(ast) == [type |-> "BackgroundJob", ast |-> ast]
Sequence(seq) == [type |-> "Sequence", seq |-> seq]

NoAst == [type |-> "None"]
NoErr == [type |-> "None"]
UnexpectedEof == [type |-> "UnexpectedEof"]
ExpectedCommand(kind) == [type |-> "ExpectedCommand", kind |-> kind]
UnexpectedToken(kind) == [type |-> "UnexpectedToken", kind |-> kind]

\* A Result<Ast> with the cursor the stream was left at.  `coerced` is a
\* history field: the variants Ast::into_command was applied to by a `|`.
Ok(ast, cur, coerced) ==
    [ok |-> TRUE, ast |-> ast, err |-> NoErr, cursor |-> cur, coerced |-> coerced]
Err(err, cur, coerced) ==
    [ok |-> FALSE, ast |-> NoAst, err |-> err, cursor |-> cur, coerced |-> coerced]

\* Mutant: a BackgroundJob around a Command is unwrapped instead of rejected.
into_command_unwrapping(ast) ==
    IF ast.type = "Command"
    THEN [ok |-> TRUE, cmd |-> ast.cmd, err |-> NoErr]
    ELSE IF ast.type = "BackgroundJob" /\ ast.ast.type = "Command"
    THEN [ok |-> TRUE, cmd |-> ast.ast.cmd, err |-> NoErr]
    ELSE [ok |-> FALSE, cmd |-> NoAst, err |-> ExpectedCommand("Atom")]

\* Ast::into_command
into_command(ast) ==
    IF ast.type = "Command"
    THEN [ok |-> TRUE, cmd |-> ast.cmd, err |-> NoErr]
    ELSE [ok |-> FALSE, cmd |-> NoAst, err |-> ExpectedCommand("Atom")]

\* The argument loop of parse_command: the cursor after the run of atoms.
RECURSIVE atoms_end(_, _)
atoms_end(toks, cur) ==
    IF peek(toks, cur) = "Atom" THEN atoms_end(toks, cur + 1) ELSE cur

\* Mutant: the argument loop starts at the program token.
parse_command_shifted(toks, cur) ==
    LET stop == atoms_end(toks, cur + 1)
    IN  [ok |-> TRUE, err |-> NoErr, cursor |-> stop,
         cmd |-> SimpleCommand(toks[cur + 1].span,
                               [i \in 1..(stop - cur) |-> toks[cur + i].span])]

parse_command(toks, cur) ==
    LET kind == peek(toks, cur)
        stop == atoms_end(toks, cur + 1)
    IN  CASE kind = "Atom" ->
                [ok |-> TRUE, err |-> NoErr, cursor |-> stop,
                 cmd |-> SimpleCommand(toks[cur + 1].span,
                                       [i \in 1..(stop - cur - 1) |-> toks[cur + 1 + i].span])]
          [] kind = "Eof" ->
                [ok |-> FALSE, err |-> UnexpectedEof, cursor |-> next_cursor(toks, cur),
                 cmd |-> NoAst]
          [] OTHER ->
                [ok |-> FALSE, err |-> ExpectedCommand(kind), cursor |-> cur + 1,
                 cmd |-> NoAst]

\* Mutant: no arm for end-of-input, which falls into the catch-all arm.
parse_primary_no_eof_arm(toks, cur) ==
    LET kind == peek(toks, cur)
    IN  IF kind = "Atom"
        THEN Ok(Command(parse_command(toks, cur).cmd), parse_command(toks, cur).cursor, {})
        ELSE Err(ExpectedCommand(kind), cur, {})

parse_primary(toks, cur) ==
    LET kind == peek(toks, cur)
    IN  CASE kind = "Atom" ->
                LET c == parse_command(toks, cur)
                IN  IF c.ok THEN Ok(Command(c.cmd), c.cursor, {})
                            ELSE Err(c.err, c.cursor, {})
          [] kind = "Eof" -> Err(UnexpectedEof, cur, {})
          [] OTHER -> Err(ExpectedCommand(kind), cur, {})

RECURSIVE parse_expression(_, _, _)
RECURSIVE expression_loop(_, _, _, _, _)

\* The `|` arm for a left operand that is not a Pipeline.
pipe_fresh(toks, right, left, min_bp, coerced) ==
    LET seen == coerced \cup right.coerced \cup {left.type}
        lc == into_command(left)
        rc == into_command(right.ast)
    IN  IF ~lc.ok THEN Err(lc.err, right.cursor, seen)
        ELSE IF ~rc.ok THEN Err(rc.err, right.cursor, seen \cup {right.ast.type})
        ELSE expression_loop(toks, right.cursor, Pipeline(<<lc.cmd, rc.cmd>>), min_bp,
                             seen \cup {right.ast.type})

\* The `|` arm for a left operand that is already a Pipeline.
pipe_push(toks, right, left, min_bp, coerced) ==
    LET seen == coerced \cup right.coerced \cup {right.ast.type}
        rc == into_command(right.ast)
    IN  IF ~rc.ok THEN Err(rc.err, right.cursor, seen)
        ELSE expression_loop(toks, right.cursor, Pipeline(Append(left.cmds, rc.cmd)),
                             min_bp, seen)

\* The `;` arms.
semi_arm(toks, right, left, min_bp, coerced) ==
    expression_loop(toks, right.cursor,
                    IF left.type = "Sequence"
                    THEN Sequence(Append(left.seq, right.ast))
                    ELSE Sequence(<<left, right.ast>>),
                    min_bp, coerced \cup right.coerced)

\* The while-let loop of parse_expression, with `left` parsed so far.
expression_loop(toks, cur, left, min_bp, coerced) ==
    LET op == peek(toks, cur)
        operator_bp == operator_binding_power(op)
    IN  IF operator_bp = NoPower \/ operator_bp < min_bp
        THEN Ok(left, cur, coerced)
        ELSE CASE op = "Ampersand" ->
                    expression_loop(toks, cur + 1, BackgroundJob(left), min_bp, coerced)
               [] op = "Semi" ->
                    LET right == parse_expression(toks, cur + 1, operator_bp)
                    IN  IF ~right.ok
                        THEN Err(right.err, right.cursor, coerced \cup right.coerced)
                        ELSE semi_arm(toks, right, left, min_bp, coerced)
               [] op = "Pipe" ->
                    LET right == parse_expression(toks, cur + 1, operator_bp)
                    IN  IF ~right.ok
                        THEN Err(right.err, right.cursor, coerced \cup right.coerced)
                        ELSE IF left.type = "Pipeline"
                        THEN pipe_push(toks, right, left, min_bp, coerced)
                        ELSE pipe_fresh(toks, right, left, min_bp, coerced)
               [] OTHER -> Err(UnexpectedToken(op), cur + 1, coerced)

parse_expression(toks, cur, min_bp) ==
    LET left == parse_primary(toks, cur)
    IN  IF ~left.ok THEN left
        ELSE expression_loop(toks, left.cursor, left.ast, min_bp, {})

\* Parser::parse
parse(toks) == parse_expression(toks, 0, MIN)

\* DisplayAst for SimpleCommand: the name, then the arguments joined by " ".
RECURSIVE join(_, _)
join(strs, sep) ==
    IF Len(strs) = 0 THEN <<>>
    ELSE IF Len(strs) = 1 THEN strs[1]
    ELSE strs[1] \o sep \o join(Tail(strs), sep)

command_to_string(cmd, src) ==
    LET name == slice(cmd.program, src)
        args == join([i \in 1..Len(cmd.args) |-> slice(cmd.args[i], src)], <<" ">>)
    IN  name \o (IF Len(args) > 0 THEN <<" ">> \o args ELSE args)

\* DisplayAst for Ast
RECURSIVE to_string(_, _)
to_string(ast, src) ==
    CASE ast.type = "BackgroundJob" -> to_string(ast.ast, src) \o <<" ", "&">>
      [] ast.type = "Command" -> command_to_string(ast.cmd, src)
      [] ast.type = "Pipeline" ->
            join([i \in 1..Len(ast.cmds) |-> command_to_string(ast.cmds[i], src)],
                 <<" ", "|", " ">>)
      [] ast.type = "Sequence" ->
            join([i \in 1..Len(ast.seq) |-> to_string(ast.seq[i], src)], <<";", " ">>)

\* --------------------------------------------------- inputs of the front end
Kinds == {"Atom", "Pipe", "Semi", "Ampersand"}

\* A token stream as a lexer of the documented token kinds hands it over: token
\* i covers byte i-1, and a non-empty stream ends with the end-of-input token.
MkStream(kinds) ==
    IF Len(kinds) = 0 THEN <<>>
    ELSE [i \in 1..Len(kinds) |-> into_token(kinds[i], Span(i - 1, i))]
            \o <<into_token("Eof", Span(Len(kinds), Len(kinds)))>>

TokenStreams == {MkStream(k) : k \in UNION {[1..n -> Kinds] : n \in 0..MaxToks}}

Alphabet == {"a", " ", "|", ";", "&"}

\* the sources of the repository's own parser tests
TestSources ==
    { <<"l","s"," ","-","l","a",";","p","w","d">>,
      <<"e","c","h","o"," ","h","e","l","l","o"," ","|"," ","w","c"," ","-","l">>,
      <<"s","l","e","e","p"," ","2"," ","&">> }

Sources == UNION {[1..n -> Alphabet] : n \in 0..MaxSrc} \cup TestSources

NoResult == [ok |-> FALSE, ast |-> NoAst, err |-> NoErr, cursor |-> 0, coerced |-> {}]

\* ------------------------------------------------------------ rush-runner
ShellPid == 1
Pids == 1..MaxProcs

\* JobStatus
Running == [tag |-> "Running"]
Stopped == [tag |-> "Stopped"]
Done(code) == [tag |-> "Done", code |-> code]

\* Job::new
Job(job_id, process_group_id, command, is_foreground) ==
    [id |-> job_id, process_group_id |-> process_group_id, command |-> command,
     status |-> Running, is_foreground |-> is_foreground]

\* What waitpid can report about a process (WaitStatus), and NoStatus for a
\* process with no state change left to report.
NoStatus == [how |-> "none"]
Exited(code) == [how |-> "exited", code |-> code]
Signaled(sig) == [how |-> "signaled", sig |-> sig]
StillAlive == [how |-> "alive"]
WaitStopped == [how |-> "stopped"]
WaitContinued == [how |-> "continued"]

\* Descriptors: the terminal the shell was started on, and the ends of a pipe.
Tty == [pipe |-> 0, end |-> "tty"]
ReadEnd(id) == [pipe |-> id, end |-> "read"]
WriteEnd(id) == [pipe |-> id, end |-> "write"]

\* A process slot.  st: "unused", "rush" (running the shell's code), "prog"
\* (running an exec'ed program), "zombie" (terminated, not yet waited for),
\* "reaped".  status is the state change waitpid has not collected yet.
\* next_job_id, jobs and source are the process's own copies of what ExecCtx
\* points to, and tree is its copy of the line's command tree: fork copies the
\* address space.  stdin and stdout are descriptors 0 and 1, fds the pipe ends
\* held besides them.  node and line say what the process was forked for.
NoProc ==
    [st |-> "unused", parent |-> 0, pgid |-> 0, status |-> NoStatus, stack |-> <<>>,
     next_job_id |-> 0, jobs |-> <<>>, source |-> <<>>, tree |-> NoAst,
     did_exec |-> FALSE, stopped |-> FALSE, stdin |-> Tty, stdout |-> Tty, fds |-> {},
     node |-> NoAst, line |-> 0]

\* Rush::new: the empty job table, the counter at 1.
ShellProc ==
    [NoProc EXCEPT !.st = "rush", !.pgid = ShellPid, !.next_job_id = 1]

\* The frames of a process's call stack, innermost first.
ExecFrame(ast) == [op |-> "execute", ast |-> ast]
ExitFrame(code) == [op |-> "exit", code |-> code]

\* An error that only ends the call it occurred in.
Unwind_one_call(stack) == stack

\* An Err returned through the `?` of every enclosing call: the frames up to
\* the place that handles it.  execute_background_job's child drops the error
\* and goes on to exit(0); in the shell Rush::run returns the error, which
\* ends the process.
RECURSIVE Unwind(_)
Unwind(stack) ==
    IF stack = <<>> THEN <<ExitFrame(1)>>
    ELSE IF stack[1].op = "exit" THEN stack
    ELSE Unwind(Tail(stack))

Top(p) == procs[p].stack[1]

Alive(p) == procs[p].st \in {"rush", "prog"}

Runs(p, op) ==
    /\ procs[p].st = "rush"
    /\ ~procs[p].stopped
    /\ procs[p].stack # <<>>
    /\ Top(p).op = op

Unused == {c \in Pids : procs[c].st = "unused"}

\* fork hands out pids in increasing order
NewPid == CHOOSE c \in Unused : \A d \in Unused : c <= d

\* The child of a fork by p: a copy of p that goes on with childStack.
Child(p, mem, childStack, node) ==
    [mem EXCEPT !.st = "rush", !.parent = p, !.status = NoStatus, !.stack = childStack,
                !.did_exec = FALSE, !.stopped = FALSE, !.node = node, !.line = nlines]

\* SIGCHLD is sent to the parent of p; it stays pending for the shell only
\* when init_shell has installed the handler (the default action drops it).
Notify(p) ==
    sigchld' = (sigchld \/ (procs[p].parent = ShellPid /\ interactive
                              /\ Alive(ShellPid)))

\* A process terminates: it becomes a zombie and its descriptors are closed.
Terminate(p, status) ==
    /\ procs' = [procs EXCEPT ![p].st = "zombie", ![p].status = status,
                              ![p].stack = <<>>, ![p].stopped = FALSE, ![p].fds = {}]
    /\ Notify(p)

\* setpgid(pid, pgid) called by process `caller`, result ignored: it takes
\* effect when pid is the caller or a child of it that has not exec'ed, and
\* pgid names pid itself or an existing group.
GroupExists(ps, pgid) ==
    \E q \in Pids : ps[q].st \in {"rush", "prog", "zombie"} /\ ps[q].pgid = pgid

setpgid(ps, caller, pid, pgid) ==
    IF /\ ps[pid].st \in {"rush", "prog", "zombie"}
       /\ pid = caller \/ (ps[pid].parent = caller /\ ~ps[pid].did_exec)
       /\ pgid = pid \/ GroupExists(ps, pgid)
    THEN [ps EXCEPT ![pid].pgid = pgid]
    ELSE ps

\* The trees given to execute: a source text and the tree parsed from its
\* tokens, plus trees built through the public Ast constructors.
CanonSource(kinds) ==
    [i \in 1..Len(kinds) |->
        CASE kinds[i] = "Atom" -> "a"
          [] kinds[i] = "Pipe" -> "|"
          [] kinds[i] = "Semi" -> ";"
          [] kinds[i] = "Ampersand" -> "&"]

ProgramKinds ==
    { <<"Atom">>,
      <<"Atom", "Ampersand">>,
      <<"Atom", "Ampersand", "Ampersand">>,
      <<"Atom", "Semi", "Atom", "Ampersand">> }

Programs ==
    {[src |-> CanonSource(k), ast |-> parse(MkStream(k)).ast] : k \in ProgramKinds}
    \cup {[src |-> <<"a", "b">>,
           ast |-> BackgroundJob(Sequence(<<
                       BackgroundJob(Command(SimpleCommand(Span(0, 1), <<>>))),
                       Command(SimpleCommand(Span(1, 2), <<>>))>>))]}

\* The background job `a &`.
JobPrograms ==
    {[src |-> CanonSource(k), ast |-> parse(MkStream(k)).ast] :
        k \in {<<"Atom", "Ampersand">>}}

\* The pipeline `a|b`, and a three-stage pipeline built through the Ast
\* constructors.
PipePrograms ==
    {[src |-> CanonSource(k), ast |-> parse(MkStream(k)).ast] :
        k \in {<<"Atom", "Pipe", "Atom">>}}
    \cup {[src |-> <<"a", "b", "c">>,
           ast |-> Pipeline(<<SimpleCommand(Span(0, 1), <<>>),
                              SimpleCommand(Span(1, 2), <<>>),
                              SimpleCommand(Span(2, 3), <<>>)>>)]}

\* Lines that do not parse.
BadLines == {<<"|">>}

\* init_shell, Rush::new
InitRun ==
    /\ procs = [p \in Pids |-> IF p = ShellPid THEN ShellProc ELSE NoProc]
    /\ interactive \in BOOLEAN
    /\ JOBS_UPDATED = FALSE
    /\ sigchld = FALSE
    /\ output = <<>>
    /\ assigned = <<>>
    /\ upd = [delivered |-> FALSE, due |-> {}, before |-> <<>>, printed |-> 0]
    /\ nlines = 0
    /\ nfail = 0
    /\ nsig = 0
    /\ npipes = 0

\* ----------------------------------------------------------- Rush::run
ShellIdle ==
    /\ procs[ShellPid].st = "rush"
    /\ ~procs[ShellPid].stopped
    /\ procs[ShellPid].stack = <<>>

\* One turn of the loop for a complete line that parses: update_job_statuses,
\* then execute with an ExecCtx over this line's text.
RunLine(prog) ==
    /\ ShellIdle
    /\ nlines' = nlines + 1
    /\ procs' = [procs EXCEPT ![ShellPid].source = prog.src,
                              ![ShellPid].tree = prog.ast,
                              ![ShellPid].stack = <<[op |-> "update"], ExecFrame(prog.ast)>>]
    /\ UNCHANGED <<interactive, JOBS_UPDATED, sigchld, output, assigned, upd, nfail,
                   nsig, npipes>>
    /\ UNCHANGED frontVars

\* One turn of the loop for a complete line that does not parse: "Parse
\* error" is written and the loop continues.
RunBadLine(src) ==
    /\ ShellIdle
    /\ ~parse(lex(src)).ok
    /\ nlines' = nlines + 1
    /\ output' = Append(output, [line |-> "Parse error"])
    /\ UNCHANGED <<procs, interactive, JOBS_UPDATED, sigchld, assigned, upd, nfail,
                   nsig, npipes>>
    /\ UNCHANGED frontVars

\* read_input returns Eof: the loop breaks and run returns Ok.
ReadEof ==
    /\ ShellIdle
    /\ procs' = [procs EXCEPT ![ShellPid].st = "zombie", ![ShellPid].status = Exited(0)]
    /\ UNCHANGED <<interactive, JOBS_UPDATED, sigchld, output, assigned, upd, nlines,
                   nfail, nsig, npipes>>
    /\ UNCHANGED frontVars

\* sigchld_handler, run when the pending SIGCHLD is delivered to the shell
SigchldHandler ==
    /\ sigchld
    /\ procs[ShellPid].st = "rush"
    /\ JOBS_UPDATED' = TRUE
    /\ sigchld' = FALSE
    /\ upd' = [upd EXCEPT !.delivered = TRUE]
    /\ UNCHANGED <<procs, interactive, output, assigned, nlines, nfail, nsig, npipes>>
    /\ UNCHANGED frontVars

\* ------------------------------------------------- update_job_statuses
\* The jobs of the shell's table that are Running while their process has
\* exited with code 0 and waits to be collected.
ExitedZero ==
    {j \in DOMAIN procs[ShellPid].jobs :
        /\ procs[ShellPid].jobs[j].status = Running
        /\ procs[procs[ShellPid].jobs[j].process_group_id].st = "zombie"
        /\ procs[procs[ShellPid].jobs[j].process_group_id].status = Exited(0)}

\* A reconciliation that scans the table whatever the flag says.
UpdateBegin_unconditional ==
    /\ Runs(ShellPid, "update")
    /\ JOBS_UPDATED' = FALSE
    /\ procs' = [procs EXCEPT ![ShellPid].stack =
                    <<[op |-> "update_scan", todo |-> DOMAIN procs[ShellPid].jobs,
                       completed_jobs |-> <<>>, asked |-> {}]>> \o Tail(@)]
    /\ upd' = [delivered |-> FALSE, due |-> ExitedZero,
               before |-> [j \in DOMAIN procs[ShellPid].jobs |->
                              procs[ShellPid].jobs[j].status],
               printed |-> Len(output)]
    /\ UNCHANGED <<interactive, sigchld, output, assigned, nlines, nfail, nsig, npipes>>
    /\ UNCHANGED frontVars

\* if !JOBS_UPDATED.swap(false) { return }
UpdateBegin ==
    /\ Runs(ShellPid, "update")
    /\ JOBS_UPDATED' = FALSE
    /\ procs' = [procs EXCEPT ![ShellPid].stack =
                    IF JOBS_UPDATED
                    THEN <<[op |-> "update_scan", todo |-> DOMAIN procs[ShellPid].jobs,
                            completed_jobs |-> <<>>, asked |-> {}]>> \o Tail(@)
                    ELSE Tail(@)]
    /\ upd' = [delivered |-> FALSE, due |-> ExitedZero,
               before |-> [j \in DOMAIN procs[ShellPid].jobs |->
                              procs[ShellPid].jobs[j].status],
               printed |-> Len(output)]
    /\ UNCHANGED <<interactive, sigchld, output, assigned, nlines, nfail, nsig, npipes>>
    /\ UNCHANGED frontVars

\* waitpid(Some(pid), WNOHANG | WUNTRACED) called by process p: a terminated
\* child or a stop not yet reported; a continued child is reported only under
\* WCONTINUED.
WaitNoHang(p, pid) ==
    IF pid \in Pids /\ procs[pid].parent = p
          /\ procs[pid].st # "reaped"
          /\ procs[pid].status.how \in {"exited", "signaled", "stopped"}
    THEN procs[pid].status
    ELSE StillAlive

\* The match on waitpid's result: the job's new status.
StatusAfter(old, ws) ==
    CASE ws.how = "exited" -> Done(ws.code)
      [] ws.how = "signaled" -> Done(128 + ws.sig)
      [] ws.how = "stopped" -> Stopped
      [] ws.how = "continued" -> Running
      [] OTHER -> old

\* A scan that waits for the process of every job, Done ones included.
UpdateScan_requery(job_id) ==
    /\ Runs(ShellPid, "update_scan")
    /\ job_id \in Top(ShellPid).todo
    /\ LET job == procs[ShellPid].jobs[job_id]
           skip == FALSE
           ws == IF skip THEN StillAlive ELSE WaitNoHang(ShellPid, job.process_group_id)
           completed == ws.how \in {"exited", "signaled"}
           frame == [Top(ShellPid) EXCEPT
                        !.todo = @ \ {job_id},
                        !.completed_jobs = IF completed THEN Append(@, job_id) ELSE @,
                        !.asked = IF skip THEN @ ELSE @ \cup {job_id}]
           shell == [procs[ShellPid] EXCEPT
                        !.jobs[job_id].status = StatusAfter(job.status, ws),
                        !.stack = <<frame>> \o Tail(@)]
       IN  procs' = [c \in Pids |->
                        IF c = ShellPid THEN shell
                        ELSE IF completed /\ c = job.process_group_id
                        THEN [procs[c] EXCEPT !.st = "reaped"]
                        ELSE IF ws.how = "stopped" /\ c = job.process_group_id
                        THEN [procs[c] EXCEPT !.status = NoStatus]
                        ELSE procs[c]]
    /\ UNCHANGED <<interactive, JOBS_UPDATED, sigchld, output, assigned, upd, nlines,
                   nfail, nsig, npipes>>
    /\ UNCHANGED frontVars

\* One iteration of `for (job_id, job) in jobs_lock.iter_mut()`; a HashMap
\* iterates in no particular order.  waitpid collects what it reports.
UpdateScan(job_id) ==
    /\ Runs(ShellPid, "update_scan")
    /\ job_id \in Top(ShellPid).todo
    /\ LET job == procs[ShellPid].jobs[job_id]
           skip == job.status.tag = "Done"
           ws == IF skip THEN StillAlive ELSE WaitNoHang(ShellPid, job.process_group_id)
           completed == ws.how \in {"exited", "signaled"}
           frame == [Top(ShellPid) EXCEPT
                        !.todo = @ \ {job_id},
                        !.completed_jobs = IF completed THEN Append(@, job_id) ELSE @,
                        !.asked = IF skip THEN @ ELSE @ \cup {job_id}]
           shell == [procs[ShellPid] EXCEPT
                        !.jobs[job_id].status = StatusAfter(job.status, ws),
                        !.stack = <<frame>> \o Tail(@)]
       IN  procs' = [c \in Pids |->
                        IF c = ShellPid THEN shell
                        ELSE IF completed /\ c = job.process_group_id
                        THEN [procs[c] EXCEPT !.st = "reaped"]
                        ELSE IF ws.how = "stopped" /\ c = job.process_group_id
                        THEN [procs[c] EXCEPT !.status = NoStatus]
                        ELSE procs[c]]
    /\ UNCHANGED <<interactive, JOBS_UPDATED, sigchld, output, assigned, upd, nlines,
                   nfail, nsig, npipes>>
    /\ UNCHANGED frontVars

\* `for job_id in completed_jobs`: one line for each job that completed.
UpdatePrint ==
    /\ Runs(ShellPid, "update_scan")
    /\ Top(ShellPid).todo = {}
    /\ LET done == Top(ShellPid).completed_jobs
       IN  output' = output \o
                [i \in 1..Len(done) |->
                    [line |-> IF procs[ShellPid].jobs[done[i]].status.code = 0
                              THEN "Done" ELSE "Exit",
                     id |-> done[i],
                     code |-> procs[ShellPid].jobs[done[i]].status.code,
                     command |-> procs[ShellPid].jobs[done[i]].command]]
    /\ procs' = [procs EXCEPT ![ShellPid].stack = Tail(@)]
    /\ UNCHANGED <<interactive, JOBS_UPDATED, sigchld, assigned, upd, nlines, nfail,
                   nsig, npipes>>
    /\ UNCHANGED frontVars

\* ------------------------------------------------------- src/input.rs
\* The locals of determine_command_completeness before its loop.
ScanStart ==
    [in_single_quote |-> FALSE, in_double_quote |-> FALSE, parens |-> 0, braces |-> 0,
     brackets |-> 0]

\* One arm of the match for a character other than a backslash.
scan_char(ch, s) ==
    LET outside == ~s.in_single_quote /\ ~s.in_double_quote
    IN  CASE ch = "'" /\ ~s.in_double_quote ->
                [s EXCEPT !.in_single_quote = ~s.in_single_quote]
          [] ch = "\"" /\ ~s.in_single_quote ->
                [s EXCEPT !.in_double_quote = ~s.in_double_quote]
          [] ch = "(" /\ outside -> [s EXCEPT !.parens = @ + 1]
          [] ch = ")" /\ outside /\ s.parens > 0 -> [s EXCEPT !.parens = @ - 1]
          [] ch = "{" /\ outside -> [s EXCEPT !.braces = @ + 1]
          [] ch = "}" /\ outside /\ s.braces > 0 -> [s EXCEPT !.braces = @ - 1]
          [] ch = "[" /\ outside -> [s EXCEPT !.brackets = @ + 1]
          [] ch = "]" /\ outside /\ s.brackets > 0 -> [s EXCEPT !.brackets = @ - 1]
          [] OTHER -> s

\* Returns that look at the brackets before the parentheses.
scan_end_brackets_first(s) ==
    IF s.in_single_quote THEN "OpenSingleQuote"
    ELSE IF s.in_double_quote THEN "OpenDoubleQuote"
    ELSE IF s.brackets > 0 THEN "OpenBracket"
    ELSE IF s.braces > 0 THEN "OpenBraces"
    ELSE IF s.parens > 0 THEN "OpenParens"
    ELSE "Complete"

\* The returns after the loop.
scan_end(s) ==
    IF s.in_single_quote THEN "OpenSingleQuote"
    ELSE IF s.in_double_quote THEN "OpenDoubleQuote"
    ELSE IF s.parens > 0 THEN "OpenParens"
    ELSE IF s.braces > 0 THEN "OpenBraces"
    ELSE IF s.brackets > 0 THEN "OpenBracket"
    ELSE "Complete"

\* The loop over text.chars(): i is the position iter.next() reads next.
RECURSIVE scan(_, _, _)
scan(text, i, s) ==
    IF i > Len(text) THEN scan_end(s)
    ELSE IF text[i] # "\\" THEN scan(text, i + 1, scan_char(text[i], s))
    ELSE IF i + 1 > Len(text) THEN "Backslash"
    ELSE IF text[i + 1] = "\n"
         THEN IF i + 2 > Len(text) THEN "Backslash" ELSE scan(text, i + 2, s)
    ELSE IF text[i + 1] = "\r"
         THEN LET j == IF i + 2 <= Len(text) /\ text[i + 2] = "\n" THEN i + 3 ELSE i + 2
              IN  IF j > Len(text) THEN "Backslash" ELSE scan(text, j, s)
    ELSE scan(text, i + 2, s)

determine_command_completeness(text) == scan(text, 1, ScanStart)

\* The characters the scan tells apart, and a plain one.
Chars == {"'", "\"", "(", ")", "{", "}", "[", "]", "\\", "\n", "\r", "a"}

Texts == UNION {[1..n -> Chars] : n \in 0..MaxText}

\* determine_command_completeness on every bounded text.
InitComplete ==
    /\ source = <<>>
    /\ tokens = <<>>
    /\ result = NoResult
    /\ stage = "text"
    /\ round = 1
    /\ first = NoAst
    /\ input_buffer \in Texts
    /\ completeness = "Complete"
    /\ since = <<>>
    /\ InitRun

Determine ==
    /\ stage = "text"
    /\ completeness' = determine_command_completeness(input_buffer)
    /\ stage' = "determined"
    /\ UNCHANGED <<source, tokens, result, round, first, input_buffer, since>>
    /\ UNCHANGED runVars

NextComplete == Determine

CompleteSpec == InitComplete /\ [][NextComplete]_vars

\* Rush::run before its loop: an empty buffer, nothing pending.
InitInput ==
    /\ input_buffer = <<>>
    /\ completeness = "Complete"
    /\ since = <<>>

\* ------------------------------------------------------ front-end actions
\* rush_lexer::Lexer::new(&input_buffer).lex()
Lex ==
    /\ stage = "src"
    /\ tokens' = lex(source)
    /\ stage' = "lexed"
    /\ UNCHANGED <<source, result, round, first>>
    /\ UNCHANGED <<input_buffer, completeness, since>>
    /\ UNCHANGED runVars

\* rush_parser::Parser::new().parse(tokens)
Parse ==
    /\ stage = "lexed"
    /\ result' = parse(tokens)
    /\ stage' = "parsed"
    /\ UNCHANGED <<source, tokens, round, first>>
    /\ UNCHANGED <<input_buffer, completeness, since>>
    /\ UNCHANGED runVars

\* ast.to_string(source): the rendering becomes the text of a second round.
Render ==
    /\ stage = "parsed"
    /\ round = 1
    /\ result.ok
    /\ first' = result.ast
    /\ source' = to_string(result.ast, source)
    /\ round' = 2
    /\ stage' = "src"
    /\ UNCHANGED <<tokens, result>>
    /\ UNCHANGED <<input_buffer, completeness, since>>
    /\ UNCHANGED runVars

\* The parser alone, on every bounded token stream.
InitParse ==
    /\ source = <<>>
    /\ tokens \in TokenStreams
    /\ result = NoResult
    /\ stage = "lexed"
    /\ round = 1
    /\ first = NoAst
    /\ InitInput
    /\ InitRun

NextParse == Parse

ParseSpec == InitParse /\ [][NextParse]_vars

\* Lexer, parser and renderer on every bounded source text.
InitLex ==
    /\ source \in Sources
    /\ tokens = <<>>
    /\ result = NoResult
    /\ stage = "src"
    /\ round = 1
    /\ first = NoAst
    /\ InitInput
    /\ InitRun

NextLex == Lex \/ Parse \/ Render

LexSpec == InitLex /\ [][NextLex]_vars

\* ------------------------------------------------- reference descriptions
\* The tokens of a stream without its end-of-input token.
Body(toks) == SelectSeq(toks, LAMBDA t : t.kind # "Eof")

KindsOf(toks) == [i \in 1..Len(toks) |-> toks[i].kind]

\* Index of the last atom of the run of atoms that starts at index i.
RunEnd(toks, i) ==
    CHOOSE j \in i..Len(toks) :
        /\ \A m \in i..j : toks[m].kind = "Atom"
        /\ (j = Len(toks) \/ toks[j + 1].kind # "Atom")

\* The simple commands written in a stream: one per maximal run of atoms.
RECURSIVE RefCommands(_, _)
RefCommands(toks, i) ==
    IF i > Len(toks) THEN <<>>
    ELSE IF toks[i].kind = "Atom"
    THEN LET j == RunEnd(toks, i)
         IN  <<SimpleCommand(toks[i].span, [m \in 1..(j - i) |-> toks[i + m].span])>>
                \o RefCommands(toks, j + 1)
    ELSE RefCommands(toks, i + 1)

\* The kinds of a stream with every run of atoms written as one "Atom".
RECURSIVE Pattern(_, _)
Pattern(toks, i) ==
    IF i > Len(toks) \/ toks[i].kind = "Eof" THEN <<>>
    ELSE IF toks[i].kind = "Atom"
    THEN <<"Atom">> \o Pattern(toks, RunEnd(toks, i) + 1)
    ELSE <<toks[i].kind>> \o Pattern(toks, i + 1)

\* k simple commands joined by k-1 tokens of kind op.
JoinedBy(toks, op, k) ==
    /\ Len(Pattern(toks, 1)) = 2 * k - 1
    /\ \A i \in 1..(2 * k - 1) :
          Pattern(toks, 1)[i] = (IF i % 2 = 1 THEN "Atom" ELSE op)

RECURSIVE NoNestedSequence(_)
NoNestedSequence(ast) ==
    CASE ast.type = "Sequence" ->
            \A i \in 1..Len(ast.seq) :
                ast.seq[i].type # "Sequence" /\ NoNestedSequence(ast.seq[i])
      [] ast.type = "BackgroundJob" -> NoNestedSequence(ast.ast)
      [] OTHER -> TRUE

RECURSIVE NoNestedBackground(_)
NoNestedBackground(ast) ==
    CASE ast.type = "Sequence" ->
            \A i \in 1..Len(ast.seq) : NoNestedBackground(ast.seq[i])
      [] ast.type = "BackgroundJob" ->
            ast.ast.type # "BackgroundJob" /\ NoNestedBackground(ast.ast)
      [] OTHER -> TRUE

\* A tree with its span values dropped.
RECURSIVE Shape(_)
Shape(ast) ==
    CASE ast.type = "Command" -> [type |-> "Command", nargs |-> Len(ast.cmd.args)]
      [] ast.type = "Pipeline" ->
            [type |-> "Pipeline",
             nargs |-> [i \in 1..Len(ast.cmds) |-> Len(ast.cmds[i].args)]]
      [] ast.type = "BackgroundJob" -> [type |-> "BackgroundJob", ast |-> Shape(ast.ast)]
      [] ast.type = "Sequence" ->
            [type |-> "Sequence", seq |-> [i \in 1..Len(ast.seq) |-> Shape(ast.seq[i])]]
      [] OTHER -> ast

\* The documented tokenizer: whitespace separates, `|` `;` `&` are operators,
\* every other maximal run of characters is one atom covering exactly the run.
RefDelimiter(ch) == is_space(ch) \/ ch \in {"|", ";", "&"}

RECURSIVE RefRunStop(_, _)
RefRunStop(src, pos) ==
    IF pos < Len(src) /\ ~RefDelimiter(src[pos + 1]) THEN RefRunStop(src, pos + 1) ELSE pos

RECURSIVE RefLex(_, _)
RefLex(src, pos) ==
    IF pos >= Len(src) THEN <<>>
    ELSE LET ch == src[pos + 1]
         IN  CASE is_space(ch) -> RefLex(src, pos + 1)
               [] ch = "|" -> <<[kind |-> "Pipe", at |-> pos]>> \o RefLex(src, pos + 1)
               [] ch = ";" -> <<[kind |-> "Semi", at |-> pos]>> \o RefLex(src, pos + 1)
               [] ch = "&" -> <<[kind |-> "Ampersand", at |-> pos]>> \o RefLex(src, pos + 1)
               [] OTHER ->
                    <<[kind |-> "Atom", at |-> pos, end |-> RefRunStop(src, pos)]>>
                        \o RefLex(src, RefRunStop(src, pos))

\* A lexed token in the same terms: operators by kind and place, atoms by span.
AsRef(tok) ==
    IF tok.kind = "Atom"
    THEN [kind |-> "Atom", at |-> tok.span.start, end |-> tok.span.end]
    ELSE [kind |-> tok.kind, at |-> tok.span.start]

\* ------------------------------------------------- claims about the parser
Parsed == stage = "parsed"

RefCmd(i) == Command(RefCommands(tokens, 1)[i])

\* C1: k >= 2 simple commands joined by k-1 `;` parse to one Sequence of
\* exactly those k Commands in source order, and no Sequence node of a parsed
\* tree has a Sequence as a direct element.
C1_SequenceFlattened ==
    Parsed =>
        /\ \A k \in 2..MaxToks :
              JoinedBy(tokens, "Semi", k) =>
                  /\ result.ok
                  /\ result.ast = Sequence([i \in 1..k |-> RefCmd(i)])
        /\ result.ok => NoNestedSequence(result.ast)

\* C2: k >= 2 simple commands joined by k-1 `|` parse successfully to one
\* Pipeline holding exactly those k SimpleCommands in source order.
C2_PipelineFlattened ==
    Parsed =>
        \A k \in 2..MaxToks :
            JoinedBy(tokens, "Pipe", k) =>
                /\ result.ok
                /\ result.ast = Pipeline([i \in 1..k |-> RefCommands(tokens, 1)[i]])

\* C3: binding powers order `;` < `&` < `|`, so `a;b|c` is
\* Sequence([Command(a), Pipeline([b,c])]), `a;b&` is
\* Sequence([Command(a), BackgroundJob(Command(b))]) and `a|b&` is
\* BackgroundJob(Pipeline([a,b])), whatever arguments the commands carry.
C3_Precedence ==
    /\ SEQUENCE < BACKGROUND /\ BACKGROUND < PIPELINE
    /\ Parsed =>
        LET pat == Pattern(tokens, 1)
            cmd == RefCommands(tokens, 1)
        IN  /\ pat = <<"Atom", "Semi", "Atom", "Pipe", "Atom">> =>
                  /\ result.ok
                  /\ result.ast = Sequence(<<Command(cmd[1]), Pipeline(<<cmd[2], cmd[3]>>)>>)
            /\ pat = <<"Atom", "Semi", "Atom", "Ampersand">> =>
                  /\ result.ok
                  /\ result.ast = Sequence(<<Command(cmd[1]), BackgroundJob(Command(cmd[2]))>>)
            /\ pat = <<"Atom", "Pipe", "Atom", "Ampersand">> =>
                  /\ result.ok
                  /\ result.ast = BackgroundJob(Pipeline(<<cmd[1], cmd[2]>>))

\* C3 witness: `a x;b|c` has been parsed to a Sequence ending in a Pipeline.
C3_Witness ==
    /\ Parsed
    /\ KindsOf(tokens) = <<"Atom", "Atom", "Semi", "Atom", "Pipe", "Atom", "Eof">>
    /\ result.ok
    /\ result.ast.type = "Sequence"
    /\ result.ast.seq[2].type = "Pipeline"

\* C4: when a `|` is applied to an operand that is not a single Command (a
\* BackgroundJob on its left as in `a & | b`, a Pipeline on its right), the
\* parse returns ExpectedCommand and no tree.
C4_PipeOperandRejected ==
    Parsed =>
        /\ result.coerced \ {"Command"} # {} =>
              /\ ~result.ok
              /\ result.ast = NoAst
              /\ result.err.type = "ExpectedCommand"
        /\ Pattern(tokens, 1) = <<"Atom", "Ampersand", "Pipe", "Atom">> =>
              /\ ~result.ok
              /\ result.err.type = "ExpectedCommand"
              /\ "BackgroundJob" \in result.coerced

\* C4 witness: `a & | b` was parsed, its `|` met the BackgroundJob, and the
\* parse failed.
C4_Witness ==
    /\ Parsed
    /\ KindsOf(tokens) = <<"Atom", "Ampersand", "Pipe", "Atom", "Eof">>
    /\ "BackgroundJob" \in result.coerced
    /\ ~result.ok

\* A primary position of a stream: the start, or directly after `;` or `|`.
PrimaryAt(toks, c) == c = 0 \/ (c <= Len(toks) /\ toks[c].kind \in {"Semi", "Pipe"})

PrimaryError(kind) == IF kind = "Eof" THEN UnexpectedEof ELSE ExpectedCommand(kind)

\* The first primary position of the stream that does not hold an atom.
BadPrimaries(toks) ==
    {c \in 0..Len(toks) : PrimaryAt(toks, c) /\ peek(toks, c) # "Atom"}

\* Before cursor c the stream has no `&` and no two `|` in one pipeline.
PlainBefore(toks, c) ==
    /\ \A i \in 1..c : toks[i].kind # "Ampersand"
    /\ \A i, j \in 1..c :
          (i < j /\ toks[i].kind = "Pipe" /\ toks[j].kind = "Pipe")
              => \E m \in (i + 1)..(j - 1) : toks[m].kind = "Semi"

\* C5: a parse that stands at a primary position whose token is end-of-input
\* returns UnexpectedEof, and ExpectedCommand(kind) when it is `|`, `;` or `&`;
\* no tree is returned.  The parser does get to the first such position of a
\* stream (e.g. empty input, `a;`, `a|`, `|a`, `a;;b`).
C5_PrimaryErrors ==
    Parsed =>
        /\ (PrimaryAt(tokens, result.cursor) /\ peek(tokens, result.cursor) # "Atom") =>
              /\ ~result.ok
              /\ result.ast = NoAst
              /\ result.err = PrimaryError(peek(tokens, result.cursor))
        /\ \A c \in BadPrimaries(tokens) :
              ((\A d \in BadPrimaries(tokens) : c <= d) /\ PlainBefore(tokens, c)) =>
                  /\ ~result.ok
                  /\ result.cursor = c
                  /\ result.err = PrimaryError(peek(tokens, c))

\* C5 witness: `a;;b` failed at its second `;` with ExpectedCommand(Semi).
C5_Witness ==
    /\ Parsed
    /\ KindsOf(tokens) = <<"Atom", "Semi", "Semi", "Atom", "Eof">>
    /\ result.cursor = 2
    /\ result.err = ExpectedCommand("Semi")

\* C6: n >= 1 atoms followed by end-of-input parse to a single Command whose
\* program is the first atom's span and whose args are the other n-1 spans in
\* order.
C6_AtomsOnly ==
    Parsed =>
        \A n \in 1..MaxToks :
            KindsOf(tokens) = [i \in 1..(n + 1) |-> IF i <= n THEN "Atom" ELSE "Eof"] =>
                /\ result.ok
                /\ result.ast =
                      Command(SimpleCommand(tokens[1].span,
                                            [i \in 1..(n - 1) |-> tokens[i + 1].span]))

\* C6 witness: three atoms were parsed to a Command with two arguments.
C6_Witness ==
    /\ Parsed
    /\ KindsOf(tokens) = <<"Atom", "Atom", "Atom", "Eof">>
    /\ result.ok
    /\ result.ast.type = "Command"
    /\ Len(result.ast.cmd.args) = 2

\* C8: no BackgroundJob node of a parsed tree has a BackgroundJob as its
\* direct child, for any token stream (`a & &` included).
C8_NoNestedBackground == (Parsed /\ result.ok) => NoNestedBackground(result.ast)

\* -------------------------------------------------- claims about the lexer
SleepSource == <<"s","l","e","e","p"," ","2"," ","&">>

\* C7: the rendering of a parsed tree, lexed and parsed again, parses and
\* gives a tree equal to the first one when spans are ignored.
C7_RoundTrip ==
    (Parsed /\ round = 2) => (result.ok /\ Shape(result.ast) = Shape(first))

\* C9: Lexer::lex gives the documented token sequence (one Atom per maximal
\* run of non-delimiter characters with exactly that span, no token for
\* whitespace, Pipe, Semi and Ampersand for `|`, `;`, `&`, one end-of-input
\* token last), so that `sleep 2 &` parses to a BackgroundJob.
C9_LexReference ==
    /\ (stage \in {"lexed", "parsed"} /\ round = 1) =>
          /\ [i \in 1..Len(Body(tokens)) |-> AsRef(Body(tokens)[i])] = RefLex(source, 0)
          /\ Len(source) > 0 =>
                (Len(tokens) = Len(Body(tokens)) + 1 /\ tokens[Len(tokens)].kind = "Eof")
    /\ (Parsed /\ round = 1 /\ source = SleepSource) =>
          (result.ok /\ result.ast.type = "BackgroundJob")

\* ---------------------------------------------------------------- execute
\* Ast::Sequence: the `for cmd in seq` loop is entered.
ExecSequence(p) ==
    /\ Runs(p, "execute")
    /\ Top(p).ast.type = "Sequence"
    /\ procs' = [procs EXCEPT ![p].stack =
                    <<[op |-> "sequence", seq |-> Top(p).ast.seq, idx |-> 0]>> \o Tail(@)]
    /\ UNCHANGED <<interactive, JOBS_UPDATED, sigchld, output, assigned, upd, nlines,
                   nfail, nsig, npipes>>
    /\ UNCHANGED frontVars

\* `execute(ctx, cmd)?` for the next element, once the call for the one
\* before has returned Ok; after the last element execute returns Ok.
SequenceNext(p) ==
    /\ Runs(p, "sequence")
    /\ procs' = [procs EXCEPT ![p].stack =
                    IF Top(p).idx < Len(Top(p).seq)
                    THEN <<ExecFrame(Top(p).seq[Top(p).idx + 1]),
                           [Top(p) EXCEPT !.idx = @ + 1]>> \o Tail(@)
                    ELSE Tail(@)]
    /\ UNCHANGED <<interactive, JOBS_UPDATED, sigchld, output, assigned, upd, nlines,
                   nfail, nsig, npipes>>
    /\ UNCHANGED frontVars

\* execute_background_job: the id is taken and the counter stepped, then fork
\* succeeds.  The child continues with setpgid, execute(ast), exit(0).
BackgroundFork(p) ==
    /\ Runs(p, "execute")
    /\ Top(p).ast.type = "BackgroundJob"
    /\ Unused # {}
    /\ LET job_id == procs[p].next_job_id
           child == NewPid
           mem == [procs[p] EXCEPT !.next_job_id = job_id + 1]
           inner == Top(p).ast.ast
       IN  /\ assigned' = Append(assigned, [id |-> job_id, by |-> p])
           /\ procs' = [procs EXCEPT
                  ![p] = [mem EXCEPT !.stack =
                            <<[op |-> "bg_parent", job_id |-> job_id, child |-> child,
                               ast |-> inner]>> \o Tail(@)],
                  ![child] = Child(p, mem, <<[op |-> "setpgid_self"], ExecFrame(inner),
                                              ExitFrame(0)>>, Top(p).ast)]
    /\ UNCHANGED <<interactive, JOBS_UPDATED, sigchld, output, upd, nlines, nfail,
                   nsig, npipes>>
    /\ UNCHANGED frontVars

\* A parent that waits for its background child before it returns.
BackgroundParent_waiting(p) ==
    /\ Runs(p, "bg_parent")
    /\ procs[Top(p).child].st = "zombie"
    /\ LET f == Top(p)
           job == Job(f.job_id, f.child, to_string(f.ast, procs[p].source), FALSE)
       IN  /\ procs' = [procs EXCEPT ![p].jobs = (f.job_id :> job) @@ @,
                                     ![p].stack = Tail(@),
                                     ![f.child].st = "reaped"]
           /\ output' = Append(output, [line |-> "launch", id |-> f.job_id, pid |-> f.child])
    /\ UNCHANGED <<interactive, JOBS_UPDATED, sigchld, assigned, upd, nlines, nfail,
                   nsig, npipes>>
    /\ UNCHANGED frontVars

\* ForkResult::Parent of execute_background_job: register the job, report it,
\* return Ok.
BackgroundParent(p) ==
    /\ Runs(p, "bg_parent")
    /\ LET f == Top(p)
           job == Job(f.job_id, f.child, to_string(f.ast, procs[p].source), FALSE)
       IN  /\ procs' = [procs EXCEPT ![p].jobs = (f.job_id :> job) @@ @,
                                     ![p].stack = Tail(@)]
           /\ output' = Append(output, [line |-> "launch", id |-> f.job_id, pid |-> f.child])
    /\ UNCHANGED <<interactive, JOBS_UPDATED, sigchld, assigned, upd, nlines, nfail,
                   nsig, npipes>>
    /\ UNCHANGED frontVars

\* ForkResult::Child of execute_background_job: setpgid(child_pid, child_pid)
BackgroundChildSetpgid(p) ==
    /\ Runs(p, "setpgid_self")
    /\ procs' = setpgid([procs EXCEPT ![p].stack = Tail(@)], p, p, p)
    /\ UNCHANGED <<interactive, JOBS_UPDATED, sigchld, output, assigned, upd, nlines,
                   nfail, nsig, npipes>>
    /\ UNCHANGED frontVars

\* An execute_command that tracks the foreground command as a job.
CommandFork_tracked(p) ==
    /\ Runs(p, "execute")
    /\ Top(p).ast.type = "Command"
    /\ Unused # {}
    /\ LET child == NewPid
           job_id == procs[p].next_job_id
           job == Job(job_id, child, to_string(Top(p).ast, procs[p].source), TRUE)
       IN  procs' = [procs EXCEPT
                  ![p].next_job_id = job_id + 1,
                  ![p].jobs = (job_id :> job) @@ @,
                  ![p].stack = <<[op |-> "waitpid", child |-> child]>> \o Tail(@),
                  ![child] = Child(p, procs[p],
                                   <<[op |-> "execvp", cmd |-> Top(p).ast.cmd]>>,
                                   Top(p).ast)]
    /\ UNCHANGED <<interactive, JOBS_UPDATED, sigchld, output, assigned, upd, nlines,
                   nfail, nsig, npipes>>
    /\ UNCHANGED frontVars

\* execute_command: fork; the child goes on to execvp, the parent to waitpid.
CommandFork(p) ==
    /\ Runs(p, "execute")
    /\ Top(p).ast.type = "Command"
    /\ Unused # {}
    /\ LET child == NewPid
       IN  procs' = [procs EXCEPT
                  ![p].stack = <<[op |-> "waitpid", child |-> child]>> \o Tail(@),
                  ![child] = Child(p, procs[p],
                                   <<[op |-> "execvp", cmd |-> Top(p).ast.cmd]>>,
                                   Top(p).ast)]
    /\ UNCHANGED <<interactive, JOBS_UPDATED, sigchld, output, assigned, upd, nlines,
                   nfail, nsig, npipes>>
    /\ UNCHANGED frontVars

\* The descriptors of the pipes a pipeline frame holds.
PipeEnds(pipes) ==
    {ReadEnd(pipes[i]) : i \in 1..Len(pipes)} \cup {WriteEnd(pipes[i]) : i \in 1..Len(pipes)}

\* execute_pipeline up to the fork loop: N - 1 pipes are made; no commands:
\* return Ok.
PipelineBegin(p) ==
    /\ Runs(p, "execute")
    /\ Top(p).ast.type = "Pipeline"
    /\ LET commands == Top(p).ast.cmds
           pipes == [i \in 1..(Len(commands) - 1) |-> npipes + i]
       IN  IF Len(commands) = 0
           THEN /\ procs' = [procs EXCEPT ![p].stack = Tail(@)]
                /\ UNCHANGED npipes
           ELSE /\ procs' = [procs EXCEPT
                       ![p].fds = @ \cup PipeEnds(pipes),
                       ![p].stack =
                            <<[op |-> "pipeline", commands |-> commands, pipes |-> pipes,
                               idx |-> 0, forked |-> 0, process_group_id |-> 0,
                               child_pids |-> <<>>]>> \o Tail(@)]
                /\ npipes' = npipes + Len(commands) - 1
    /\ UNCHANGED <<interactive, JOBS_UPDATED, sigchld, output, assigned, upd, nlines,
                   nfail, nsig>>
    /\ UNCHANGED frontVars

\* One turn of `for idx in 0..commands.len()`: fork the stage.  The child has
\* the parent's process_group_id as it was at the fork (0 stands for None).
PipelineFork(p) ==
    /\ Runs(p, "pipeline")
    /\ Top(p).forked = 0
    /\ Top(p).idx < Len(Top(p).commands)
    /\ Unused # {}
    /\ LET child == NewPid
           f == Top(p)
           target == IF f.process_group_id = 0 THEN child ELSE f.process_group_id
       IN  procs' = [procs EXCEPT
                  ![p].stack = <<[f EXCEPT !.forked = child]>> \o Tail(@),
                  ![child] = Child(p, procs[p],
                                   <<[op |-> "stage", idx |-> f.idx, pipes |-> f.pipes,
                                      commands |-> f.commands,
                                      target_process_group_id |-> target]>>,
                                   Command(f.commands[f.idx + 1]))]
    /\ UNCHANGED <<interactive, JOBS_UPDATED, sigchld, output, assigned, upd, nlines,
                   nfail, nsig, npipes>>
    /\ UNCHANGED frontVars

\* ForkResult::Parent of the fork loop: process_group_id is set on the first
\* turn, setpgid(child, target_process_group_id), child_pids.push(child).
PipelineParentSetpgid(p) ==
    /\ Runs(p, "pipeline")
    /\ Top(p).forked # 0
    /\ LET f == Top(p)
           child == f.forked
           target == IF f.process_group_id = 0 THEN child ELSE f.process_group_id
           frame == [f EXCEPT !.process_group_id = target, !.forked = 0,
                              !.idx = @ + 1, !.child_pids = Append(@, child)]
       IN  procs' = setpgid([procs EXCEPT ![p].stack = <<frame>> \o Tail(@)],
                            p, child, target)
    /\ UNCHANGED <<interactive, JOBS_UPDATED, sigchld, output, assigned, upd, nlines,
                   nfail, nsig, npipes>>
    /\ UNCHANGED frontVars

\* A stage that always makes a group of its own.
StageSetpgid_own_group(p) ==
    /\ Runs(p, "stage")
    /\ procs' = setpgid([procs EXCEPT ![p].stack =
                            <<[Top(p) EXCEPT !.op = "stage_wire"]>>],
                        p, p, p)
    /\ UNCHANGED <<interactive, JOBS_UPDATED, sigchld, output, assigned, upd, nlines,
                   nfail, nsig, npipes>>
    /\ UNCHANGED frontVars

\* ForkResult::Child of the fork loop: setpgid(0, target_process_group_id)
StageSetpgid(p) ==
    /\ Runs(p, "stage")
    /\ procs' = setpgid([procs EXCEPT ![p].stack =
                            <<[Top(p) EXCEPT !.op = "stage_wire"]>>],
                        p, p, Top(p).target_process_group_id)
    /\ UNCHANGED <<interactive, JOBS_UPDATED, sigchld, output, assigned, upd, nlines,
                   nfail, nsig, npipes>>
    /\ UNCHANGED frontVars

\* A stage that reads from the pipe it writes to.
StageWire_own_pipe(p) ==
    /\ Runs(p, "stage_wire")
    /\ LET f == Top(p)
       IN  procs' = [procs EXCEPT
                  ![p].stdin = IF f.idx + 1 < Len(f.commands)
                               THEN ReadEnd(f.pipes[f.idx + 1]) ELSE @,
                  ![p].stdout = IF f.idx + 1 < Len(f.commands)
                                THEN WriteEnd(f.pipes[f.idx + 1]) ELSE @,
                  ![p].stack = <<[op |-> "execvp", cmd |-> f.commands[f.idx + 1]]>>]
    /\ UNCHANGED <<interactive, JOBS_UPDATED, sigchld, output, assigned, upd, nlines,
                   nfail, nsig, npipes>>
    /\ UNCHANGED frontVars

\* The child wires its standard input and output with dup2.  The loop that
\* follows closes clones of the pipe descriptors, so the descriptors
\* themselves stay open until execvp or exit.
StageWire(p) ==
    /\ Runs(p, "stage_wire")
    /\ LET f == Top(p)
       IN  procs' = [procs EXCEPT
                  ![p].stdin = IF f.idx > 0 THEN ReadEnd(f.pipes[f.idx]) ELSE @,
                  ![p].stdout = IF f.idx + 1 < Len(f.commands)
                                THEN WriteEnd(f.pipes[f.idx + 1]) ELSE @,
                  ![p].stack = <<[op |-> "execvp", cmd |-> f.commands[f.idx + 1]]>>]
    /\ UNCHANGED <<interactive, JOBS_UPDATED, sigchld, output, assigned, upd, nlines,
                   nfail, nsig, npipes>>
    /\ UNCHANGED frontVars

\* A parent that starts to wait as soon as one stage has been forked.
PipelineClose_early(p) ==
    /\ Runs(p, "pipeline")
    /\ Top(p).forked = 0
    /\ Top(p).idx >= 1
    /\ procs' = [procs EXCEPT
                    ![p].fds = @ \ PipeEnds(Top(p).pipes),
                    ![p].stack =
                        <<[op |-> "pipeline_wait", commands |-> Top(p).commands,
                           child_pids |-> Top(p).child_pids, waited |-> 0]>> \o Tail(@)]
    /\ UNCHANGED <<interactive, JOBS_UPDATED, sigchld, output, assigned, upd, nlines,
                   nfail, nsig, npipes>>
    /\ UNCHANGED frontVars

\* After the last fork the parent closes its pipe ends and starts to wait.
PipelineClose(p) ==
    /\ Runs(p, "pipeline")
    /\ Top(p).forked = 0
    /\ Top(p).idx = Len(Top(p).commands)
    /\ procs' = [procs EXCEPT
                    ![p].fds = @ \ PipeEnds(Top(p).pipes),
                    ![p].stack =
                        <<[op |-> "pipeline_wait", commands |-> Top(p).commands,
                           child_pids |-> Top(p).child_pids, waited |-> 0]>> \o Tail(@)]
    /\ UNCHANGED <<interactive, JOBS_UPDATED, sigchld, output, assigned, upd, nlines,
                   nfail, nsig, npipes>>
    /\ UNCHANGED frontVars

\* `for pid in &child_pids`: waitpid(pid, None) returns once pid has
\* terminated (without WUNTRACED or WCONTINUED nothing else is reported), and
\* the loop breaks; after the last pid execute_pipeline returns Ok.
PipelineWait(p) ==
    /\ Runs(p, "pipeline_wait")
    /\ IF Top(p).waited = Len(Top(p).child_pids)
       THEN procs' = [procs EXCEPT ![p].stack = Tail(@)]
       ELSE LET pid == Top(p).child_pids[Top(p).waited + 1]
            IN  /\ procs[pid].st = "zombie"
                /\ procs' = [procs EXCEPT
                       ![pid].st = "reaped",
                       ![p].stack = <<[Top(p) EXCEPT !.waited = @ + 1]>> \o Tail(@)]
    /\ UNCHANGED <<interactive, JOBS_UPDATED, sigchld, output, assigned, upd, nlines,
                   nfail, nsig, npipes>>
    /\ UNCHANGED frontVars

\* fork returns an error at one of the three fork sites: the `?` returns it.
\* execute_background_job has taken its id before it forks; execute_pipeline
\* drops its pipes, which closes them.
ForkFails(p) ==
    /\ nfail < MaxForkFail
    /\ \/ Runs(p, "execute") /\ Top(p).ast.type \in {"Command", "BackgroundJob"}
       \/ Runs(p, "pipeline") /\ Top(p).forked = 0 /\ Top(p).idx < Len(Top(p).commands)
    /\ nfail' = nfail + 1
    /\ LET background == Top(p).op = "execute" /\ Top(p).ast.type = "BackgroundJob"
           job_id == procs[p].next_job_id
       IN  /\ assigned' = IF background
                          THEN Append(assigned, [id |-> job_id, by |-> p])
                          ELSE assigned
           /\ procs' = [procs EXCEPT
                  ![p].next_job_id = IF background THEN job_id + 1 ELSE @,
                  ![p].fds = IF Top(p).op = "pipeline" THEN @ \ PipeEnds(Top(p).pipes)
                             ELSE @,
                  ![p].stack = Unwind(Tail(@))]
    /\ UNCHANGED <<interactive, JOBS_UPDATED, sigchld, output, upd, nlines, nsig, npipes>>
    /\ UNCHANGED frontVars

\* waitpid(child, None) of execute_command: returns once the child terminated.
WaitChild(p) ==
    /\ Runs(p, "waitpid")
    /\ procs[Top(p).child].st = "zombie"
    /\ procs' = [procs EXCEPT ![Top(p).child].st = "reaped", ![p].stack = Tail(@)]
    /\ UNCHANGED <<interactive, JOBS_UPDATED, sigchld, output, assigned, upd, nlines,
                   nfail, nsig, npipes>>
    /\ UNCHANGED frontVars

\* execvp replaces the child's image with the program; the pipe descriptors
\* are close-on-exec.
ExecvpOk(p) ==
    /\ Runs(p, "execvp")
    /\ procs' = [procs EXCEPT ![p].st = "prog", ![p].did_exec = TRUE,
                              ![p].stack = <<>>, ![p].fds = {}]
    /\ UNCHANGED <<interactive, JOBS_UPDATED, sigchld, output, assigned, upd, nlines,
                   nfail, nsig, npipes>>
    /\ UNCHANGED frontVars

\* execvp fails (command not found): the child goes on to exit(127).
ExecvpFails(p) ==
    /\ Runs(p, "execvp")
    /\ procs' = [procs EXCEPT ![p].stack = <<ExitFrame(127)>>]
    /\ UNCHANGED <<interactive, JOBS_UPDATED, sigchld, output, assigned, upd, nlines,
                   nfail, nsig, npipes>>
    /\ UNCHANGED frontVars

\* std::process::exit(code)
ProcessExit(p) ==
    /\ Runs(p, "exit")
    /\ Terminate(p, Exited(Top(p).code))
    /\ UNCHANGED <<interactive, JOBS_UPDATED, output, assigned, upd, nlines, nfail,
                   nsig, npipes>>
    /\ UNCHANGED frontVars

ExitCodes == {0, 1}

\* An exec'ed program ends with some exit code.
ProgramExit(p, code) ==
    /\ procs[p].st = "prog"
    /\ ~procs[p].stopped
    /\ Terminate(p, Exited(code))
    /\ UNCHANGED <<interactive, JOBS_UPDATED, output, assigned, upd, nlines, nfail,
                   nsig, npipes>>
    /\ UNCHANGED frontVars

\* ------------------------------------------- signals sent from outside
\* SIGKILL
Signals == {9}

\* A stop signal stops a process the shell has forked.
Stop(p) ==
    /\ nsig < MaxSignals
    /\ p # ShellPid
    /\ Alive(p)
    /\ ~procs[p].stopped
    /\ nsig' = nsig + 1
    /\ procs' = [procs EXCEPT ![p].stopped = TRUE, ![p].status = WaitStopped]
    /\ Notify(p)
    /\ UNCHANGED <<interactive, JOBS_UPDATED, output, assigned, upd, nlines, nfail,
                   npipes>>
    /\ UNCHANGED frontVars

\* SIGCONT resumes a stopped process.
Continue(p) ==
    /\ nsig < MaxSignals
    /\ Alive(p)
    /\ procs[p].stopped
    /\ nsig' = nsig + 1
    /\ procs' = [procs EXCEPT ![p].stopped = FALSE, ![p].status = WaitContinued]
    /\ Notify(p)
    /\ UNCHANGED <<interactive, JOBS_UPDATED, output, assigned, upd, nlines, nfail,
                   npipes>>
    /\ UNCHANGED frontVars

\* A signal kills a process the shell has forked.
Kill(p, sig) ==
    /\ nsig < MaxSignals
    /\ p # ShellPid
    /\ Alive(p)
    /\ nsig' = nsig + 1
    /\ Terminate(p, Signaled(sig))
    /\ UNCHANGED <<interactive, JOBS_UPDATED, output, assigned, upd, nlines, nfail,
                   npipes>>
    /\ UNCHANGED frontVars

Init ==
    /\ source = <<>>
    /\ tokens = <<>>
    /\ result = NoResult
    /\ stage = "idle"
    /\ round = 1
    /\ first = NoAst
    /\ InitInput
    /\ InitRun

\* Commands, sequences and background jobs, undisturbed by signals from
\* outside.
Next ==
    \/ \E prog \in Programs : nlines < MaxLines /\ RunLine(prog)
    \/ \E src \in BadLines : nlines < MaxLines /\ RunBadLine(src)
    \/ ReadEof
    \/ SigchldHandler
    \/ UpdateBegin
    \/ \E job_id \in 1..(2 * MaxProcs) : UpdateScan(job_id)
    \/ UpdatePrint
    \/ \E p \in Pids :
          \/ ExecSequence(p)
          \/ SequenceNext(p)
          \/ BackgroundFork(p)
          \/ BackgroundParent(p)
          \/ BackgroundChildSetpgid(p)
          \/ CommandFork(p)
          \/ ForkFails(p)
          \/ WaitChild(p)
          \/ ExecvpOk(p)
          \/ ExecvpFails(p)
          \/ ProcessExit(p)
          \/ \E code \in ExitCodes : ProgramExit(p, code)

Spec == Init /\ [][Next]_vars

\* Background jobs over several lines, with signals from outside.
NextJobs ==
    \/ \E prog \in JobPrograms : nlines < MaxJobLines /\ RunLine(prog)
    \/ SigchldHandler
    \/ UpdateBegin
    \/ \E job_id \in 1..(2 * MaxProcs) : UpdateScan(job_id)
    \/ UpdatePrint
    \/ \E p \in Pids :
          \/ BackgroundFork(p)
          \/ BackgroundParent(p)
          \/ BackgroundChildSetpgid(p)
          \/ CommandFork(p)
          \/ WaitChild(p)
          \/ ExecvpOk(p)
          \/ ExecvpFails(p)
          \/ ProcessExit(p)
          \/ \E code \in ExitCodes : ProgramExit(p, code)
          \/ Stop(p)
          \/ Continue(p)
          \/ \E sig \in Signals : Kill(p, sig)

JobSpec == Init /\ [][NextJobs]_vars

\* Pipelines, with failing forks and signals from outside.
NextPipe ==
    \/ \E prog \in PipePrograms : nlines < MaxLines /\ RunLine(prog)
    \/ SigchldHandler
    \/ UpdateBegin
    \/ UpdatePrint
    \/ \E p \in Pids :
          \/ PipelineBegin(p)
          \/ PipelineFork(p)
          \/ PipelineParentSetpgid(p)
          \/ StageSetpgid(p)
          \/ StageWire(p)
          \/ PipelineClose(p)
          \/ PipelineWait(p)
          \/ ForkFails(p)
          \/ ExecvpOk(p)
          \/ ExecvpFails(p)
          \/ ProcessExit(p)
          \/ \E code \in ExitCodes : ProgramExit(p, code)
          \/ Stop(p)
          \/ Continue(p)
          \/ \E sig \in Signals : Kill(p, sig)

PipeSpec == Init /\ [][NextPipe]_vars

\* Every shape of tree, in the foreground and wrapped in a background job:
\* `a`, `a|a`, `a &`, `a|a &` and a background Sequence built through the
\* Ast constructors.
TreePrograms ==
    {[src |-> CanonSource(k), ast |-> parse(MkStream(k)).ast] :
        k \in {<<"Atom">>, <<"Atom", "Pipe", "Atom">>, <<"Atom", "Ampersand">>,
               <<"Atom", "Pipe", "Atom", "Ampersand">>}}
    \cup {[src |-> <<"a", "b">>,
           ast |-> BackgroundJob(Sequence(<<
                       Command(SimpleCommand(Span(0, 1), <<>>)),
                       Command(SimpleCommand(Span(1, 2), <<>>))>>))]}

\* Commands, pipelines and sequences in the foreground and in background jobs.
NextTree ==
    \/ \E prog \in TreePrograms : nlines < MaxLines /\ RunLine(prog)
    \/ SigchldHandler
    \/ UpdateBegin
    \/ \E job_id \in 1..(2 * MaxProcs) : UpdateScan(job_id)
    \/ UpdatePrint
    \/ \E p \in Pids :
          \/ ExecSequence(p)
          \/ SequenceNext(p)
          \/ BackgroundFork(p)
          \/ BackgroundParent(p)
          \/ BackgroundChildSetpgid(p)
          \/ CommandFork(p)
          \/ WaitChild(p)
          \/ PipelineBegin(p)
          \/ PipelineFork(p)
          \/ PipelineParentSetpgid(p)
          \/ StageSetpgid(p)
          \/ StageWire(p)
          \/ PipelineClose(p)
          \/ PipelineWait(p)
          \/ ExecvpOk(p)
          \/ ExecvpFails(p)
          \/ ProcessExit(p)
          \/ \E code \in ExitCodes : ProgramExit(p, code)

TreeSpec == Init /\ [][NextTree]_vars

\* ------------------------------------------------ Rush::run's input loop
\* The lines read_input returns: `a`, `a\` and `a'`, each with its line feed.
Lines ==
    { <<"a", "\n">>, <<"a", "\\", "\n">>, <<"a", "'", "\n">> }

\* One iteration of the loop of Rush::run that reads a line: the buffer is
\* cleared, the line is pushed, and the text is lexed, parsed and executed
\* when determine_command_completeness finds it Complete.  `since` records
\* the lines read since the last complete command.
ReadLine(line) ==
    /\ ShellIdle
    /\ nlines < MaxLines
    /\ LET pending == IF completeness = "Complete" THEN <<>> ELSE since
           buffer == <<>> \o line
           c == determine_command_completeness(buffer)
           toks == lex(buffer)
           res == parse(toks)
       IN  /\ Len(pending) < MaxReads
           /\ since' = Append(pending, line)
           /\ input_buffer' = buffer
           /\ completeness' = c
           /\ IF c # "Complete"
              THEN UNCHANGED <<source, tokens, result, stage, nlines, procs, output>>
              ELSE /\ source' = buffer
                   /\ tokens' = toks
                   /\ result' = res
                   /\ stage' = "parsed"
                   /\ nlines' = nlines + 1
                   /\ IF res.ok
                      THEN /\ procs' = [procs EXCEPT
                                  ![ShellPid].source = buffer,
                                  ![ShellPid].tree = res.ast,
                                  ![ShellPid].stack = <<[op |-> "update"], ExecFrame(res.ast)>>]
                           /\ UNCHANGED output
                      ELSE /\ output' = Append(output, [line |-> "Parse error"])
                           /\ UNCHANGED procs
    /\ UNCHANGED <<round, first>>
    /\ UNCHANGED <<interactive, JOBS_UPDATED, sigchld, assigned, upd, nfail, nsig, npipes>>

\* The input loop with the commands its lines run.
NextInput ==
    \/ \E line \in Lines : ReadLine(line)
    \/ ReadEof
    \/ SigchldHandler
    \/ UpdateBegin
    \/ UpdatePrint
    \/ \E p \in Pids :
          \/ CommandFork(p)
          \/ WaitChild(p)
          \/ ExecvpOk(p)
          \/ ExecvpFails(p)
          \/ ProcessExit(p)
          \/ \E code \in ExitCodes : ProgramExit(p, code)

InputSpec == Init /\ [][NextInput]_vars

\* ---------------------------------------------- claims about the job ids
LaunchLines == {i \in 1..Len(output) : output[i].line = "launch"}

\* C10: over any sequence of execute calls in one run, failed forks and
\* launches made while a background job's tree executes included, the ids
\* given to background jobs strictly increase in launch order, and no id is
\* assigned to, or reported as "[id] pid" for, two different jobs.
C10_JobIdsIncrease ==
    /\ \A i, j \in 1..Len(assigned) : i < j => assigned[i].id < assigned[j].id
    /\ \A i, j \in LaunchLines : output[i].id = output[j].id => output[i].pid = output[j].pid

\* ------------------------------------- claims about background launches
\* The shell is in the parent arm of execute_background_job and takes a step.
ShellLaunches ==
    /\ procs[ShellPid].stack # <<>>
    /\ Top(ShellPid).op = "bg_parent"
    /\ procs'[ShellPid] # procs[ShellPid]

\* C11: when execute runs BackgroundJob(t) in the shell and the fork has
\* succeeded, the call returns without waiting on the child (the child is
\* left as it is), and the job table has exactly one entry more: keyed by the
\* newly allocated id, with process_group_id the child's pid, status Running
\* and is_foreground false; every earlier entry is unchanged.
C11_BackgroundLaunch ==
    [][ShellLaunches =>
          LET f == Top(ShellPid)
              before == procs[ShellPid].jobs
              after == procs'[ShellPid].jobs
          IN  /\ procs'[ShellPid].stack = Tail(procs[ShellPid].stack)
              /\ procs'[f.child] = procs[f.child]
              /\ procs[f.child].parent = ShellPid
              /\ f.job_id = procs[ShellPid].next_job_id - 1
              /\ f.job_id \notin DOMAIN before
              /\ DOMAIN after = DOMAIN before \cup {f.job_id}
              /\ after[f.job_id].id = f.job_id
              /\ after[f.job_id].process_group_id = f.child
              /\ after[f.job_id].status = Running
              /\ after[f.job_id].is_foreground = FALSE
              /\ \A j \in DOMAIN before : after[j] = before[j]]_vars

\* The shell is back at its prompt with two jobs in the table, the later one
\* Running while its child is still at work.
C11_Witness ==
    /\ ShellIdle
    /\ \E i, j \in DOMAIN procs[ShellPid].jobs :
          /\ i < j
          /\ procs[ShellPid].jobs[j].status = Running
          /\ Alive(procs[ShellPid].jobs[j].process_group_id)
          /\ procs[procs[ShellPid].jobs[j].process_group_id].stack # <<>>

\* ------------------------------------ claims about update_job_statuses
\* The shell is inside a call of update_job_statuses.
InUpdate ==
    \E i \in 1..Len(procs[ShellPid].stack) :
        procs[ShellPid].stack[i].op \in {"update", "update_scan"}

\* The completion lines printed for job j.
CompletionLines(j) ==
    {i \in 1..Len(output) : output[i].line \in {"Done", "Exit"} /\ output[i].id = j}

\* C12: in every run set up through init_shell, a background job that is
\* Running and whose child has exited with code 0 when a call of
\* update_job_statuses begins is Done(0) when that call has returned, and
\* exactly one completion line, the Done line, has been printed for it.
C12_DoneAfterExit ==
    ~InUpdate =>
        \A j \in upd.due :
            /\ procs[ShellPid].jobs[j].status = Done(0)
            /\ Cardinality(CompletionLines(j)) = 1
            /\ \A i \in CompletionLines(j) : output[i].line = "Done"

\* ----------------------------------------------- claims about sequences
\* The line a process works on: the shell's current line, or the line a
\* child was forked on.
LineOf(p) == IF p = ShellPid THEN nlines ELSE procs[p].line

\* The processes p has forked for the node n on its line.
ForkedFor(p, n) ==
    {c \in Pids : /\ procs[c].st # "unused"
                  /\ procs[c].parent = p
                  /\ procs[c].line = LineOf(p)
                  /\ procs[c].node = n}

\* The nodes a process is forked for when execute(e) starts.
RECURSIVE FirstForks(_)
FirstForks(e) ==
    CASE e.type = "Command" -> {e}
      [] e.type = "BackgroundJob" -> {e}
      [] e.type = "Pipeline" -> {Command(e.cmds[i]) : i \in 1..Len(e.cmds)}
      [] e.type = "Sequence" -> UNION {FirstForks(e.seq[i]) : i \in 1..Len(e.seq)}

Started(e, p) == \E n \in FirstForks(e) : ForkedFor(p, n) # {}

\* The call execute(e) made by p has returned Ok: a command's child has been
\* waited for, a background job has been registered in p's table.
RECURSIVE ReturnedOk(_, _)
ReturnedOk(e, p) ==
    CASE e.type = "Command" -> \E c \in ForkedFor(p, e) : procs[c].st = "reaped"
      [] e.type = "BackgroundJob" ->
            \E c \in ForkedFor(p, e) : \E j \in DOMAIN procs[p].jobs :
                procs[p].jobs[j].process_group_id = c
      [] e.type = "Pipeline" ->
            \A i \in 1..Len(e.cmds) :
                \E c \in ForkedFor(p, Command(e.cmds[i])) : procs[c].st = "reaped"
      [] e.type = "Sequence" -> \A i \in 1..Len(e.seq) : ReturnedOk(e.seq[i], p)

\* The Sequence nodes of a tree.
RECURSIVE SequenceNodes(_)
SequenceNodes(ast) ==
    CASE ast.type = "Sequence" ->
            {ast} \cup UNION {SequenceNodes(ast.seq[i]) : i \in 1..Len(ast.seq)}
      [] ast.type = "BackgroundJob" -> SequenceNodes(ast.ast)
      [] OTHER -> {}

\* C13: when execute runs Sequence([e1..en]), a process is forked for e(i+1)
\* only after the call for e(i) has returned Ok; so when that call returns an
\* error (its fork failed), no process is ever forked for e(i+1)..en.
C13_SequenceInOrder ==
    \A p \in Pids : \A s \in SequenceNodes(procs[p].tree) :
        \A k \in 2..Len(s.seq) :
            Started(s.seq[k], p) => ReturnedOk(s.seq[k - 1], p)

\* A later element of a sequence has been started.
C13_Witness ==
    \E p \in Pids : \E s \in SequenceNodes(procs[p].tree) :
        \E k \in 2..Len(s.seq) : Started(s.seq[k], p)

\* The status the job of a process gets from the process's state change.
MappedStatus(old, change) ==
    CASE change.how = "exited" -> Done(change.code)
      [] change.how = "signaled" -> Done(128 + change.sig)
      [] change.how = "stopped" -> Stopped
      [] change.how = "continued" -> Running
      [] OTHER -> old

\* The scan of update_job_statuses passes job j.
Scans(j) ==
    /\ procs[ShellPid].stack # <<>>
    /\ Top(ShellPid).op = "update_scan"
    /\ j \in Top(ShellPid).todo
    /\ procs'[ShellPid].stack # <<>>
    /\ procs'[ShellPid].stack[1].op = "update_scan"
    /\ j \notin procs'[ShellPid].stack[1].todo

\* The jobs that became Done in the latest call of update_job_statuses.
BecameDone ==
    {j \in DOMAIN upd.before :
        upd.before[j].tag # "Done" /\ procs[ShellPid].jobs[j].status.tag = "Done"}

\* The completion lines the latest call has printed.
Announced == {i \in (upd.printed + 1)..Len(output) : output[i].line \in {"Done", "Exit"}}

\* C15: in a call of update_job_statuses that does its work, a job that is
\* not Done gets its status from the state change of its process (exit with
\* code c: Done(c); killed by signal s: Done(128 + s); stopped: Stopped;
\* resumed after a stop: Running; no change: as before), a Done job is left
\* alone, and exactly the jobs that became Done in the call are announced,
\* with the Done line for code 0 and the Exit line otherwise.
C15_StatusMapping ==
    /\ [][\A j \in DOMAIN procs[ShellPid].jobs :
            Scans(j) =>
                LET job == procs[ShellPid].jobs[j]
                IN  procs'[ShellPid].jobs[j].status =
                        IF job.status.tag = "Done" THEN job.status
                        ELSE MappedStatus(job.status,
                                          procs[job.process_group_id].status)]_vars
    /\ [](~InUpdate =>
            /\ \A j \in BecameDone : Cardinality({i \in Announced : output[i].id = j}) = 1
            /\ \A i \in Announced :
                  /\ output[i].id \in BecameDone
                  /\ output[i].code = procs[ShellPid].jobs[output[i].id].status.code
                  /\ output[i].line = "Done" <=> output[i].code = 0)

\* The shell makes the first step of a call of update_job_statuses.
UpdateCalled ==
    /\ procs[ShellPid].stack # <<>>
    /\ Top(ShellPid).op = "update"
    /\ procs'[ShellPid] # procs[ShellPid]

\* C16: a call of update_job_statuses made when no SIGCHLD has been delivered
\* since the call before began returns at once: no job's status changes, no
\* process is queried or collected, nothing is printed.  A call that finds
\* the flag set clears it.
C16_NoSignalNoWork ==
    [][UpdateCalled =>
          /\ ~upd.delivered =>
                /\ procs'[ShellPid] = [procs[ShellPid] EXCEPT !.stack = Tail(@)]
                /\ \A c \in Pids \ {ShellPid} : procs'[c] = procs[c]
                /\ output' = output
          /\ JOBS_UPDATED => ~JOBS_UPDATED']_vars

\* A call has returned without work although a job's process had exited.
C16_Witness ==
    /\ ~InUpdate
    /\ ~upd.delivered
    /\ ~JOBS_UPDATED
    /\ \E j \in upd.due : procs[ShellPid].jobs[j].status = Running

\* ------------------------------------------ claims about the shell's loop
\* Rush::run is in its loop: at the prompt, or at work on a line.
InLoop ==
    /\ procs[ShellPid].st = "rush"
    /\ \A i \in 1..Len(procs[ShellPid].stack) : procs[ShellPid].stack[i].op # "exit"

\* C14: once the shell is initialized, neither a parse error nor an error
\* returned by execute ends the read-execute loop: until the end of its input
\* the shell stays in the loop and prompts again.
C14_LoopSurvivesErrors == InLoop \/ procs[ShellPid].status = Exited(0)

\* ----------------------------------------------- claims about pipelines
\* Process p is inside execute_pipeline: in the fork loop, or waiting.
InPipeline(p) ==
    /\ procs[p].st = "rush"
    /\ procs[p].stack # <<>>
    /\ Top(p).op \in {"pipeline", "pipeline_wait"}

\* The children the call has forked so far.
StagePids(f) ==
    {f.child_pids[i] : i \in 1..Len(f.child_pids)}
        \cup (IF f.op = "pipeline" /\ f.forked # 0 THEN {f.forked} ELSE {})

Unreaped(c) == procs[c].st \in {"rush", "prog", "zombie"}

\* C17: in execute_pipeline with N commands the stages are forked from left
\* to right (the stages forked so far are the first ones, stage i running
\* command i), and the parent waits for none before the N-th fork: when it
\* starts to wait all N stages exist and none has been collected.
C17_ForkAllThenWait ==
    \A p \in Pids : InPipeline(p) =>
        LET f == Top(p)
            n == Len(f.commands)
        IN  /\ \A i \in 1..n :
                  ForkedFor(p, Command(f.commands[i])) # {} <=> i <= Cardinality(StagePids(f))
            /\ \A i \in 1..Len(f.child_pids) :
                  f.child_pids[i] \in ForkedFor(p, Command(f.commands[i]))
            /\ f.op = "pipeline" => \A c \in StagePids(f) : Unreaped(c)
            /\ (f.op = "pipeline_wait" /\ f.waited = 0) =>
                  /\ Len(f.child_pids) = n
                  /\ \A c \in StagePids(f) : Unreaped(c)

\* The parent of a three-stage pipeline is about to wait while all three
\* stages run their programs.
C17_Witness ==
    \E p \in Pids :
        /\ InPipeline(p)
        /\ Top(p).op = "pipeline_wait"
        /\ Top(p).waited = 0
        /\ Len(Top(p).child_pids) = 3
        /\ \A c \in StagePids(Top(p)) : procs[c].st = "prog"

\* execute_pipeline returns in process p: its frame leaves the stack while
\* p goes on running.
PipelineReturns(p) ==
    /\ InPipeline(p)
    /\ procs'[p].st = "rush"
    /\ \/ procs'[p].stack = <<>>
       \/ procs'[p].stack[1].op \notin {"pipeline", "pipeline_wait"}

\* C18: whenever execute_pipeline returns in the parent, on any path, every
\* child it forked has terminated (exited or killed by a signal) and has been
\* collected; a child that is only stopped or continued is still waited for.
C18_AllStagesReaped ==
    [][\A p \in Pids :
          PipelineReturns(p) => \A c \in StagePids(Top(p)) : procs'[c].st = "reaped"]_vars

\* The stage children: what a process was forked for is a command of the
\* pipeline in its copy of the tree.
IsStage(c) ==
    /\ procs[c].st # "unused"
    /\ procs[c].tree.type = "Pipeline"
    /\ \E i \in 1..Len(procs[c].tree.cmds) : procs[c].node = Command(procs[c].tree.cmds[i])

StageIndex(c) ==
    CHOOSE i \in 1..Len(procs[c].tree.cmds) : procs[c].node = Command(procs[c].tree.cmds[i])

\* The stages of the pipeline that c belongs to.
Siblings(c) ==
    {d \in Pids : /\ IsStage(d)
                  /\ procs[d].parent = procs[c].parent
                  /\ procs[d].line = procs[c].line}

\* The stage is past its own setpgid call.
PastSetpgid(c) ==
    \/ procs[c].did_exec
    \/ procs[c].st = "rush" /\ procs[c].stack # <<>>
          /\ Top(c).op \in {"stage_wire", "execvp", "exit"}

\* C19: under every interleaving of the parent's and the children's setpgid
\* calls the stages are in one group, whose id is the pid of the first stage
\* forked: stage i is in it once the parent has recorded it (so before the
\* parent forks stage i+1 or starts to wait), and every stage is in it
\* before it executes its program.
C19_OneProcessGroup ==
    /\ \A p \in Pids : InPipeline(p) =>
          \A i \in 1..Len(Top(p).child_pids) :
              Unreaped(Top(p).child_pids[i]) =>
                  procs[Top(p).child_pids[i]].pgid = Top(p).child_pids[1]
    /\ \A c \in Pids : (IsStage(c) /\ Unreaped(c) /\ PastSetpgid(c)) =>
          \E d \in Siblings(c) : StageIndex(d) = 1 /\ procs[c].pgid = d

\* The last stage of a three-stage pipeline made its own setpgid call before
\* the parent made its call for it, and all three stages are in the group of
\* the first.
C19_Witness ==
    \E p \in Pids :
        /\ InPipeline(p)
        /\ Top(p).op = "pipeline"
        /\ Top(p).forked # 0
        /\ Len(Top(p).child_pids) = 2
        /\ PastSetpgid(Top(p).forked)
        /\ \A c \in StagePids(Top(p)) : Unreaped(c) /\ procs[c].pgid = Top(p).child_pids[1]

\* The stage has wired its descriptors.
Wired(c) ==
    \/ procs[c].did_exec
    \/ procs[c].st = "rush" /\ procs[c].stack # <<>> /\ Top(c).op \in {"execvp", "exit"}

\* C20: in an N-stage pipeline the standard output of stage i is the write
\* end of a pipe whose read end is the standard input of stage i+1, a
\* different pipe for every i; the first stage's standard input and the last
\* stage's standard output are those of the process that runs the pipeline.
C20_PipeWiring ==
    \A c \in Pids : (IsStage(c) /\ Wired(c)) =>
        LET n == Len(procs[c].tree.cmds)
            i == StageIndex(c)
        IN  /\ i = 1 => procs[c].stdin = procs[procs[c].parent].stdin
            /\ i = n => procs[c].stdout = procs[procs[c].parent].stdout
            /\ i > 1 => procs[c].stdin.end = "read"
            /\ i < n => procs[c].stdout.end = "write"
            /\ \A d \in Siblings(c) : Wired(d) =>
                  /\ StageIndex(d) = i + 1 => procs[d].stdin.pipe = procs[c].stdout.pipe
                  /\ (StageIndex(d) > i /\ StageIndex(d) < n) =>
                        procs[d].stdout.pipe # procs[c].stdout.pipe

\* All three stages of a pipeline are wired.
C20_Witness ==
    \E c \in Pids :
        /\ IsStage(c)
        /\ Len(procs[c].tree.cmds) = 3
        /\ Cardinality({d \in Siblings(c) : Wired(d)}) = 3

\* --------------------------------------- claims about pipe descriptors
\* The stage has failed to execute its program and is about to exit.
FailedExec(c) ==
    /\ procs[c].st = "rush"
    /\ procs[c].stack # <<>>
    /\ Top(c).op = "exit"

\* The parent holds no pipe descriptor when execute_pipeline returns.
ParentClosesPipes ==
    [][\A p \in Pids : PipelineReturns(p) => procs'[p].fds = {}]_vars

\* A stage whose program runs holds no pipe descriptor besides the copies on
\* its standard input and output.
ProgramHoldsNoPipe ==
    \A c \in Pids : (IsStage(c) /\ procs[c].st = "prog") => procs[c].fds = {}

\* C21: every pipe descriptor made by execute_pipeline is closed on every
\* exit path: the parent holds none when execute_pipeline returns (with Ok or
\* with an error, a fork that fails after some stages were forked included),
\* and a stage holds none besides the copies on its standard input and output
\* when its program starts to run or when it exits after a failed exec.
C21_PipeDescriptorsClosed ==
    /\ ParentClosesPipes
    /\ [](ProgramHoldsNoPipe)
    /\ [](\A c \in Pids : (IsStage(c) /\ FailedExec(c)) => procs[c].fds = {})

\* ----------------------------------------- claims about the terminal
\* The foreground process group of the controlling terminal of a shell
\* started on a terminal: init_shell waits until it is the shell's group and
\* sets it with tcsetpgrp; no other code of the shell sets it.
tcgetpgrp == procs[ShellPid].pgid

\* The shell is blocked in the waitpid of execute_command.
ShellWaitsCommand ==
    /\ procs[ShellPid].st = "rush"
    /\ procs[ShellPid].stack # <<>>
    /\ Top(ShellPid).op = "waitpid"

\* The shell is blocked in the wait loop of execute_pipeline.
ShellWaitsPipeline ==
    /\ InPipeline(ShellPid)
    /\ Top(ShellPid).op = "pipeline_wait"

\* The group of the process a foreground Command runs in is the terminal's
\* foreground group while the shell waits for it.
CommandInForeground ==
    (interactive /\ ShellWaitsCommand /\ Unreaped(Top(ShellPid).child)) =>
        procs[Top(ShellPid).child].pgid = tcgetpgrp

\* The group of a background job is not the terminal's foreground group.
JobsInBackground ==
    interactive =>
        \A j \in DOMAIN procs[ShellPid].jobs :
            procs[ShellPid].jobs[j].process_group_id # tcgetpgrp

\* C22: while the shell is blocked waiting on a foreground Command or a
\* foreground Pipeline, the process group of the processes it waits on is the
\* foreground process group of the controlling terminal; the process group of
\* a background job is never the terminal's foreground group.
C22_ForegroundHoldsTerminal ==
    /\ CommandInForeground
    /\ (interactive /\ ShellWaitsPipeline) =>
          \A i \in 1..Len(Top(ShellPid).child_pids) :
              Unreaped(Top(ShellPid).child_pids[i]) =>
                  procs[Top(ShellPid).child_pids[i]].pgid = tcgetpgrp
    /\ JobsInBackground

\* ------------------------------- claims about a background job's group
\* Process c was created, directly or through other children, by process g.
RECURSIVE DescendsFrom(_, _)
DescendsFrom(c, g) ==
    /\ procs[c].st # "unused"
    /\ procs[c].parent # 0
    /\ \/ procs[c].parent = g
       \/ DescendsFrom(procs[c].parent, g)

\* The background child is past its own setpgid call.
Leads(g) ==
    procs[g].stack = <<>> \/ Top(g).op # "setpgid_self"

\* The processes of job j are in the group the job records.
JobInOneGroup(j) ==
    LET g == procs[ShellPid].jobs[j].process_group_id
    IN  /\ Leads(g) => procs[g].pgid = g
        /\ \A c \in Pids : DescendsFrom(c, g) => procs[c].pgid = g

\* C23: for every background job, whatever the shape of the tree it wraps
\* (Command, Pipeline, Sequence), every process created while that tree is
\* executed is in the process group recorded in the job's process_group_id,
\* whose leader is the background child.
C23_JobOneGroup ==
    \A j \in DOMAIN procs[ShellPid].jobs : JobInOneGroup(j)

\* The same for the jobs that wrap no Pipeline.
JobOneGroupNoPipeline ==
    \A j \in DOMAIN procs[ShellPid].jobs :
        procs[procs[ShellPid].jobs[j].process_group_id].tree.ast.type # "Pipeline"
            => JobInOneGroup(j)

\* ------------------------------------------ claims about the job table
\* The fields of a job that are fixed when it is inserted.
Fixed(job) ==
    [id |-> job.id, process_group_id |-> job.process_group_id,
     command |-> job.command, is_foreground |-> job.is_foreground]

\* Process p is executing a Command or a Pipeline.
InForegroundWork(p) ==
    /\ procs[p].stack # <<>>
    /\ \/ Top(p).op \in {"waitpid", "pipeline", "pipeline_wait"}
       \/ Top(p).op = "execute" /\ Top(p).ast.type \in {"Command", "Pipeline"}

\* C24: the job table changes only by the insertion of a background launch
\* and by the status updates of update_job_statuses: executing a Command or a
\* Pipeline leaves the table and the next-job-id counter unchanged, no step
\* removes an entry, and an entry's id, process_group_id, command text and
\* is_foreground never change after it is inserted.
C24_JobTableFrame ==
    [][\A p \in Pids : (procs[p].st = "rush" /\ procs'[p].st = "rush") =>
          LET before == procs[p].jobs
              after == procs'[p].jobs
          IN  /\ DOMAIN before \subseteq DOMAIN after
              /\ \A j \in DOMAIN before : Fixed(after[j]) = Fixed(before[j])
              /\ DOMAIN after # DOMAIN before =>
                    procs[p].stack # <<>> /\ Top(p).op = "bg_parent"
              /\ (\E j \in DOMAIN before : after[j].status # before[j].status) =>
                    procs[p].stack # <<>> /\ Top(p).op = "update_scan"
              /\ procs'[p].next_job_id # procs[p].next_job_id =>
                    /\ procs[p].stack # <<>>
                    /\ Top(p).op = "execute"
                    /\ Top(p).ast.type = "BackgroundJob"
              /\ InForegroundWork(p) =>
                    after = before /\ procs'[p].next_job_id = procs[p].next_job_id]_vars

\* The shell waits for a foreground pipeline while its table holds a job that
\* update_job_statuses has made Done.
C24_Witness ==
    /\ ShellWaitsPipeline
    /\ \E j \in DOMAIN procs[ShellPid].jobs : procs[ShellPid].jobs[j].status.tag = "Done"

\* --------------------------------- claims about the completeness scan
\* The positions from i on that a backslash takes with it: the character
\* after it, or the two of a carriage return and line feed.
RECURSIVE Taken(_, _)
Taken(text, i) ==
    IF i > Len(text) THEN {}
    ELSE IF text[i] # "\\" THEN Taken(text, i + 1)
    ELSE LET k == IF i = Len(text) THEN 0
                  ELSE IF /\ i + 2 <= Len(text)
                          /\ text[i + 1] = "\r"
                          /\ text[i + 2] = "\n" THEN 2
                  ELSE 1
         IN  ((i + 1)..(i + k)) \cup Taken(text, i + k + 1)

\* The backslashes that are not escaped themselves.
Backslashes(text) ==
    {i \in 1..Len(text) : text[i] = "\\" /\ i \notin Taken(text, 1)}

LineBreaks == {<<"\n">>, <<"\r">>, <<"\r", "\n">>}

\* The text ends in an unescaped backslash, or in one followed by one line
\* break.
EndsInBackslash(text) ==
    \E i \in Backslashes(text) :
        SubSeq(text, i + 1, Len(text)) \in {<<>>} \cup LineBreaks

\* The text without its backslashes and what they take.
RECURSIVE PlainFrom(_, _)
PlainFrom(text, i) ==
    IF i > Len(text) THEN <<>>
    ELSE IF i \in Backslashes(text) \cup Taken(text, 1) THEN PlainFrom(text, i + 1)
    ELSE <<text[i]>> \o PlainFrom(text, i + 1)

\* The quote that is open after the first n characters: "'", "\"" or "".
RECURSIVE QuoteAfter(_, _)
QuoteAfter(plain, n) ==
    IF n = 0 THEN ""
    ELSE LET q == QuoteAfter(plain, n - 1)
             ch == plain[n]
         IN  IF ch \in {"'", "\""}
             THEN IF q = "" THEN ch ELSE IF q = ch THEN "" ELSE q
             ELSE q

\* The positions of character ch outside quotes.
OutsideQuotes(plain, ch) ==
    {k \in 1..Len(plain) : plain[k] = ch /\ QuoteAfter(plain, k - 1) = ""}

\* More `open` than `close` characters outside quotes.
MoreOpened(plain, open, close) ==
    Cardinality(OutsideQuotes(plain, open)) > Cardinality(OutsideQuotes(plain, close))

\* Some `open` character outside quotes has no `close` after it to match it:
\* a `close` with nothing open to its left matches nothing.
RECURSIVE DepthAfter(_, _, _, _)
DepthAfter(plain, n, open, close) ==
    IF n = 0 THEN 0
    ELSE LET d == DepthAfter(plain, n - 1, open, close)
         IN  IF n \in OutsideQuotes(plain, open) THEN d + 1
             ELSE IF n \in OutsideQuotes(plain, close) /\ d > 0 THEN d - 1
             ELSE d

Unmatched(plain, open, close) == DepthAfter(plain, Len(plain), open, close) > 0

\* The pending construct at the end of the text, Pending telling when a kind
\* of bracket is pending.
PendingConstruct(text, Pending(_, _, _)) ==
    LET plain == PlainFrom(text, 1)
    IN  IF EndsInBackslash(text) THEN "Backslash"
        ELSE IF QuoteAfter(plain, Len(plain)) = "'" THEN "OpenSingleQuote"
        ELSE IF QuoteAfter(plain, Len(plain)) = "\"" THEN "OpenDoubleQuote"
        ELSE IF Pending(plain, "(", ")") THEN "OpenParens"
        ELSE IF Pending(plain, "{", "}") THEN "OpenBraces"
        ELSE IF Pending(plain, "[", "]") THEN "OpenBracket"
        ELSE "Complete"

\* C25 as stated: a text ending in an unescaped backslash (with at most one
\* line break after it) is Backslash; otherwise an unclosed single quote
\* gives OpenSingleQuote, an unclosed double quote OpenDoubleQuote, more `(`,
\* `{` or `[` opened outside quotes than closed gives OpenParens, OpenBraces
\* or OpenBracket, in that priority; otherwise the text is Complete.
C25_MoreOpenedThanClosed ==
    stage = "determined" =>
        completeness = PendingConstruct(input_buffer, MoreOpened)

\* C25 corrected: the same, with a bracket pending when some opening bracket
\* outside quotes is not matched by a later closing one; a closing bracket
\* met while none is open is ignored, so `)(` is OpenParens.
C25_Completeness ==
    stage = "determined" =>
        completeness = PendingConstruct(input_buffer, Unmatched)

\* A text with as many `(` as `)` outside quotes is reported OpenParens.
C25_Witness ==
    /\ stage = "determined"
    /\ completeness = "OpenParens"
    /\ ~MoreOpened(PlainFrom(input_buffer, 1), "(", ")")

\* ------------------------------------------ claims about Done jobs
\* The jobs a scan has called waitpid for: `asked` is a history field of the
\* scan's frame.
Asked ==
    IF procs[ShellPid].stack # <<>> /\ Top(ShellPid).op = "update_scan"
    THEN Top(ShellPid).asked ELSE {}

\* C26: Done is absorbing: once a job's status is Done(c) no step of
\* update_job_statuses or of execute changes it, a scan does not call waitpid
\* for its process again, and over the whole run at most one completion line
\* is printed for the job.
C26_DoneAbsorbing ==
    /\ [][\A p \in Pids : \A j \in DOMAIN procs[p].jobs :
             (procs[p].st = "rush" /\ procs'[p].st = "rush"
                 /\ procs[p].jobs[j].status.tag = "Done") =>
                 /\ j \in DOMAIN procs'[p].jobs
                 /\ procs'[p].jobs[j].status = procs[p].jobs[j].status]_vars
    /\ [](\A j \in Asked : upd.before[j].tag # "Done")
    /\ [](\A j \in DOMAIN procs[ShellPid].jobs : Cardinality(CompletionLines(j)) <= 1)

\* A scan has passed over a job that was Done before the call, and has
\* called waitpid for another job.
C26_Witness ==
    /\ procs[ShellPid].stack # <<>>
    /\ Top(ShellPid).op = "update_scan"
    /\ Asked # {}
    /\ \E j \in DOMAIN procs[ShellPid].jobs :
          /\ upd.before[j].tag = "Done"
          /\ j \notin Top(ShellPid).todo
          /\ Cardinality(CompletionLines(j)) = 1

\* ------------------------------------- claims about lost notifications
\* Jobs of the shell whose process has a state change that no waitpid has
\* collected yet.
Uncollected ==
    {j \in DOMAIN procs[ShellPid].jobs :
        /\ procs[ShellPid].jobs[j].status.tag # "Done"
        /\ WaitNoHang(ShellPid, procs[ShellPid].jobs[j].process_group_id) # StillAlive}

\* The first step of the call takes it into the scan.
CallScans ==
    /\ procs'[ShellPid].stack # <<>>
    /\ procs'[ShellPid].stack[1].op = "update_scan"

\* C27: no notification of a child's state change is lost: only
\* update_job_statuses clears JOBS_UPDATED, before it scans, and the handler
\* only sets it, so when a child's state has changed and the change has not
\* been collected, a scan that asked about the job too early included, the
\* flag is true when the next call of update_job_statuses begins and that
\* call scans the jobs.
C27_NoLostNotification ==
    /\ [][(JOBS_UPDATED /\ ~JOBS_UPDATED') => UpdateCalled]_vars
    /\ [][(UpdateCalled /\ Uncollected # {}) => (JOBS_UPDATED /\ CallScans)]_vars

\* The same for a shell started on a terminal, at calls that begin with no
\* SIGCHLD pending.
NoLostNotificationDelivered ==
    [][(UpdateCalled /\ Uncollected # {} /\ interactive /\ ~sigchld)
          => (JOBS_UPDATED /\ CallScans)]_vars

\* ------------------------------------------ claims about the input loop
RECURSIVE Concat(_)
Concat(ls) == IF ls = <<>> THEN <<>> ELSE Head(ls) \o Concat(Tail(ls))

IsPrefix(a, b) == Len(a) <= Len(b) /\ SubSeq(b, 1, Len(a)) = a

\* C28: in Rush::run the lines read while the command is incomplete
\* accumulate: when determine_command_completeness reports Complete, the text
\* that is lexed, parsed and executed is the concatenation of all the lines
\* read since the last complete command, and the buffer is emptied only after
\* a complete command has been handled.
C28_LinesAccumulate ==
    /\ [](completeness = "Complete" /\ since # <<>> =>
             /\ source = Concat(since)
             /\ tokens = lex(Concat(since))
             /\ result = parse(lex(Concat(since))))
    /\ [][completeness # "Complete" => IsPrefix(input_buffer, input_buffer')]_vars

\* What the loop does: the text handled is the last line read alone.
LastLineAlone ==
    (completeness = "Complete" /\ since # <<>>) =>
        /\ source = since[Len(since)]
        /\ input_buffer = since[Len(since)]
        /\ tokens = lex(source)
        /\ result = parse(tokens)

====
